---- MODULE Spec2Model ----
(***************************************************************************)
(* Model of the ADLB/XLB server core (swift-lang/exm-lb):                   *)
(*   - the data store of one server (data.c): single-assignment data with  *)
(*     read/write reference counts, subscribers and container references;  *)
(*   - the server-to-server sync handshake (sync.c);                        *)
(*   - the work queue and the request queue of the servers, with targeted  *)
(*     and parallel tasks, the steal and the notifications                 *)
(*     (adlb.c, notifications.c);                                           *)
(*   - the datum ids: their owner and their minting (adlb.c, data.c);      *)
(*   - the codec of the typed values (adlb_types.c);                        *)
(*   - the checkpoint file, its writer and its reader (xpt_file.c).         *)
(* The specifications SpecScalar, SpecCreate, SpecContainer, SpecPermanent, *)
(* SpecLookup, SpecLock and SpecScavenge drive the data store, SpecSync,    *)
(* SpecSyncNotify and SpecSyncLive the handshake, SpecWork, SpecParallel    *)
(* and SpecNotify the queues, SpecLocate and SpecUnique the ids, SpecRanks  *)
(* the layout of the ranks, SpecPack the codec, SpecXpt the checkpoint file *)
(* and SpecFilePos the positions in it; all are over the same variables,    *)
(* and the variables of the other subsystems stay unchanged.                *)
(***************************************************************************)
EXTENDS Integers, Sequences, FiniteSets, TLC

(***************************************************************************)
(* Bounds of the explored configurations.                                   *)
(***************************************************************************)
\* largest refcount an operation may raise a count to
MaxRefcount == 2
\* largest number of set-reference tasks waiting to be applied
MaxNotifWork == 2
\* largest number of work units put in a run
MaxUnits == 3
\* largest number of units taken by one steal
StealBudget == 2
\* width of a long (64 in the code)
LongBits == 6
\* ids given to ADLB_Locate are within -MaxLocateId .. MaxLocateId
MaxLocateId == 30

\* ids used by the clients; every id is always created with the same type
ScalarIds == {1}
ContainerIds == {2}
RefIds == {3, 4}
DatumIds == ScalarIds \cup ContainerIds \cup RefIds
\* container subscripts used by the clients
Subscripts == {"x"}
\* worker ranks that subscribe
Ranks == {1, 2}
\* payloads stored into INTEGER data
IntValues == {42, 43}
\* ranks of the servers that sync with each other
Servers == {1, 2, 3, 4}
\* number of deferred sync requests a server keeps (sync.c keeps 1024)
PENDING_SYNC_BUFFER_SIZE == 1
\* payloads stored into REF data and into the container: ids of referands
RefValues == ScalarIds
\* refcounts given in the props of a create
CreateCounts == -1 .. MaxRefcount
\* refcount changes requested by refcount_incr
IncrCounts == {-1, 0, 1}
\* refcount decrements carried by a store / a retrieve
DecrCounts == {0, 1}
\* what an int read from uninitialised memory may be
GarbageInts == {-1, 0, 1}

(***************************************************************************)
(* State.                                                                   *)
(***************************************************************************)
VARIABLES
  tds,                       \* data.c: map id -> datum (domain = ids present)
  container_references,      \* data.c: map (id, subscript) -> list of reference ids
  container_ix_listeners,    \* data.c: map (id, subscript) -> list of subscribed ranks
  xlb_read_refcount_enabled, \* global switch of read reference counting
  crashed,                   \* the server process died (assert or wild pointer)
  notif_work,                \* set-reference tasks returned by stores, not yet applied
  lastOp,                    \* last data operation and what it returned
  sync_target,               \* sync.c: per server, the target of the xlb_sync2 it is in
  serving,                   \* per server, the server it serves in xlb_serve_server
  sync_rpc,                  \* per server, the server that accepted its sync and
                             \* that it now talks to
  server_sync_rejected,      \* sync.c: per server, the flag of msg_from_other_server
  sync_requests,             \* ADLB_TAG_SYNC_REQUEST messages in flight: <<from, to>>
  sync_responses,            \* ADLB_TAG_SYNC_RESPONSE messages in flight
  xlb_pending_syncs,         \* sync.c: per server, the ranks of the deferred requests
  nested_sync,               \* sync.c: xlb_sync2 was entered during a sync in progress
  xlb_shutdown,              \* servers that the ADLB_TAG_SHUTDOWN_SERVER message reached
  sync_code,                 \* sync.c: per server, rc of its xlb_sync2
  xlb_work,                  \* per server rank, its work queue, oldest unit first
  xlb_parked,                \* per server rank, its request queue, longest parked first
  work_delivered,            \* the deliveries made: which ranks were handed which unit
  wu_next,                   \* identity of the next work unit
  steal_in_flight,           \* stolen units on their way: <<thief, units>>
  lastNotify,                \* last xlb_close_notify and how it submitted each task
  unique,                    \* data.c: per server number, the next id to mint
  minted,                    \* per server number, the ids that data_unique returned
  next_server_index,         \* adlb.c: per client, the counter of get_next_server
  lastUnique,                \* last ADLB_Unique and what it returned
  locate_id,                 \* the id given to ADLB_Locate
  locate_rank,               \* the rank that ADLB_Locate returned for it
  NDEBUG,                    \* the code was compiled with NDEBUG defined
  locked,                    \* data.c: the entries <<id, rank>> of the table of locks
  pack_in,                   \* the value given to the codec: <<type, storage>>
  pack_buf,                  \* the bytes that packing it produced
  unpacked,                  \* what unpacking those bytes produced
  xpt_rank,                  \* the rank of the process that writes checkpoints
  xpt_state,                 \* xpt_file.c: the xlb_xpt_state of the writer, and its file
  xpt_written,               \* the records given to xlb_xpt_write, oldest first
  xpt_synced,                \* the writer has flushed or closed after its last write
  xpt_loaded,                \* what loading the records of the rank returned
  layout,                    \* a process after ADLB_Init and what it found out about a rank
  pos_add                    \* a position in the checkpoint file, a byte count, their sum

dataVars == <<tds, container_references, container_ix_listeners,
              xlb_read_refcount_enabled, crashed, notif_work, lastOp>>

syncVars == <<sync_target, serving, sync_rpc, server_sync_rejected,
              sync_requests, sync_responses, xlb_pending_syncs>>

notifyVars == <<nested_sync>>

shutdownVars == <<xlb_shutdown, sync_code>>

queueVars == <<xlb_work, xlb_parked, work_delivered, wu_next, steal_in_flight,
               lastNotify>>

idVars == <<unique, minted, next_server_index, lastUnique, locate_id, locate_rank>>

\* how the library was compiled
buildVars == <<NDEBUG>>

\* the table of locks
lockVars == <<locked>>

\* the codec of the typed values
packVars == <<pack_in, pack_buf, unpacked>>

\* the checkpoint file
xptVars == <<xpt_rank, xpt_state, xpt_written, xpt_synced, xpt_loaded>>

\* the functions that are applied on their own
fnVars == <<layout, pos_add>>

\* variables of the work queues, the id functions, the locks and the codec
restVars == <<queueVars, idVars, buildVars, lockVars, packVars, xptVars, fnVars>>

vars == <<dataVars, syncVars, notifyVars, shutdownVars, queueVars, idVars, buildVars,
          lockVars, packVars, xptVars, fnVars>>

\* variables that no data store operation touches
nonDataVars == <<syncVars, notifyVars, shutdownVars, restVars>>

\* variables that no step of the sync handshake touches
nonSyncVars == <<dataVars, notifyVars, shutdownVars, restVars>>

\* variables that no operation on the work queues touches
nonWorkVars == <<dataVars, syncVars, notifyVars, shutdownVars, idVars, buildVars,
                 lockVars, packVars, xptVars, fnVars>>

\* variables that neither ADLB_Unique nor ADLB_Locate touches
nonIdVars == <<dataVars, syncVars, notifyVars, shutdownVars, queueVars, buildVars,
               lockVars, packVars, xptVars, fnVars>>

\* variables that neither lock nor unlock touches, lastOp apart
nonLockVars == <<tds, container_references, container_ix_listeners,
                 xlb_read_refcount_enabled, crashed, notif_work,
                 syncVars, notifyVars, shutdownVars, queueVars, idVars, buildVars,
                 packVars, xptVars, fnVars>>

\* variables that the codec does not touch
nonPackVars == <<dataVars, syncVars, notifyVars, shutdownVars, queueVars, idVars,
                 buildVars, lockVars, xptVars, fnVars>>

\* variables that the checkpoint file does not touch
nonXptVars == <<dataVars, syncVars, notifyVars, shutdownVars, queueVars, idVars,
                buildVars, lockVars, packVars, fnVars>>

\* variables that the functions applied on their own do not touch
nonFnVars == <<dataVars, syncVars, notifyVars, shutdownVars, queueVars, idVars,
               buildVars, lockVars, packVars, xptVars>>

(***************************************************************************)
(* Types and codes.                                                         *)
(***************************************************************************)
IdType(id) == IF id \in ContainerIds THEN "CONTAINER"
              ELSE IF id \in RefIds THEN "REF" ELSE "INTEGER"

\* value type of the containers the clients create
ContainerValType == "REF"

ValuesOfType(type) == IF type = "REF" THEN RefValues
                      ELSE IF type = "INTEGER" THEN IntValues ELSE {}

ADLB_NO_RC == [read_refcount |-> 0, write_refcount |-> 0]
NO_SCAVENGE == ADLB_NO_RC
ADLB_RC_IS_NULL(rc) == rc.read_refcount = 0 /\ rc.write_refcount = 0
RC(r, w) == [read_refcount |-> r, write_refcount |-> w]

ADLB_NO_NOTIFS == [close_notify |-> <<>>, insert_notify |-> <<>>, references |-> <<>>]

\* the key of the two subscriber tables
IdSubPairs == ContainerIds \X Subscripts

NoOp == [op |-> "none", id |-> 0, sub |-> "", dc |-> "SUCCESS",
         notifs |-> ADLB_NO_NOTIFS, result |-> <<>>]

Op(name, id, sub, dc, notifs, result) ==
  [op |-> name, id |-> id, sub |-> sub, dc |-> dc, notifs |-> notifs, result |-> result]

\* remove a key from a table
TableRemove(t, k) == [x \in (DOMAIN t) \ {k} |-> t[x]]
\* add or overwrite a key of a table
TableSet(t, k, v) == [x \in (DOMAIN t) \cup {k} |-> IF x = k THEN v ELSE t[x]]

\* list_i_unique_insert / list_l_unique_insert: append unless already present
UniqueInsert(list, x) ==
  IF \E i \in 1 .. Len(list) : list[i] = x THEN list ELSE Append(list, x)

(***************************************************************************)
(* data_create                                                              *)
(***************************************************************************)
\* the datum as data_create leaves it when datum_init_props succeeds
NewDatum(type, props) ==
  [type |-> type,
   read_refcount |-> props.read_refcount,
   write_refcount |-> props.write_refcount,
   set |-> type = "CONTAINER",
   permanent |-> props.permanent,
   listeners |-> <<>>,
   value |-> <<>>,
   members |-> <<>>,
   init |-> TRUE]

\* The datum is malloc'ed and added to tds BEFORE datum_init_props checks the
\* props.  When a check fails the datum stays in tds with its refcounts,
\* status and storage never written: any content is possible.
UninitDatums(type) ==
  { [type |-> type, read_refcount |-> r, write_refcount |-> w,
     set |-> s, permanent |-> p, listeners |-> <<>>,
     value |-> v, members |-> <<>>, init |-> FALSE] :
       r \in GarbageInts, w \in GarbageInts, s \in BOOLEAN, p \in BOOLEAN,
       v \in { <<x>> : x \in ValuesOfType(type) } \cup {<<>>} }

datum_init_props(props) ==
  IF props.read_refcount < 0 \/ props.write_refcount < 0
    THEN "INVALID" ELSE "SUCCESS"

\* table_lp_add of the datum d under the key id.  When the key is already
\* in the table (which the check of lines 167-170 excludes unless the code
\* was compiled with NDEBUG) the table holds two data for the key, and a
\* lookup finds the new one or the one that was there.
table_lp_add(id, d) ==
  \/ tds' = TableSet(tds, id, d)
  \/ id \in DOMAIN tds /\ tds' = tds

\* The check of lines 167-170 is between #ifndef NDEBUG and #endif: it is
\* part of the function unless the code was compiled with NDEBUG.
data_create(id, type, props) ==
  /\ ~crashed
  /\ IF ~NDEBUG /\ id \in DOMAIN tds
       THEN /\ lastOp' = Op("create", id, "", "DOUBLE_DECLARE", ADLB_NO_NOTIFS, <<>>)
            /\ UNCHANGED tds
       ELSE IF props.read_refcount <= 0 /\ props.write_refcount <= 0
       THEN /\ lastOp' = Op("create", id, "", "SUCCESS", ADLB_NO_NOTIFS, <<>>)
            /\ UNCHANGED tds
       ELSE IF datum_init_props(props) # "SUCCESS"
       THEN /\ \E g \in UninitDatums(type) : table_lp_add(id, g)
            /\ lastOp' = Op("create", id, "", "INVALID", ADLB_NO_NOTIFS, <<>>)
       ELSE /\ table_lp_add(id, NewDatum(type, props))
            /\ lastOp' = Op("create", id, "", "SUCCESS", ADLB_NO_NOTIFS, <<>>)
  /\ UNCHANGED <<container_references, container_ix_listeners,
                 xlb_read_refcount_enabled, crashed, notif_work>>
  /\ UNCHANGED nonDataVars

(***************************************************************************)
(* refcount_impl, datum_gc and the referand helpers                         *)
(***************************************************************************)
RECURSIVE refcount_impl(_, _, _, _)
RECURSIVE refcount_write(_, _, _, _)
RECURSIVE refcount_close(_, _, _, _)
RECURSIVE refcount_gc(_, _, _, _)
RECURSIVE datum_gc(_, _, _)
RECURSIVE cleanup_storage(_, _, _)
RECURSIVE cleanup_members(_, _, _, _)
RECURSIVE cleanup_rest(_, _, _, _)
RECURSIVE incr_rc_referand(_, _, _, _)
RECURSIVE data_reference_count(_, _, _, _)

\* result of a refcount operation on the table t
RcResult(dc, t, notifs, gc, scavenged) ==
  [dc |-> dc, tds |-> t, notifs |-> notifs, gc |-> gc, scavenged |-> scavenged]

\* a code and the table it leaves
DcTds(dc, t) == [dc |-> dc, tds |-> t]

\* the references / ranks registered for a pair in a subscriber table
Registered(table, pair) == IF pair \in DOMAIN table THEN table[pair] ELSE <<>>

\* data_close that hands out the listeners and keeps them in the list
data_close_keep(d) == [notifs |-> d.listeners, datum |-> d]

\* data_close: hand out the listeners of the datum and clear the list
data_close(d) == [notifs |-> d.listeners, datum |-> [d EXCEPT !.listeners = <<>>]]

\* line 373: will the change leave the datum without any refcount ?
do_gc(d, change) ==
  /\ d.read_refcount + change.read_refcount <= 0
  /\ d.write_refcount + change.write_refcount <= 0

\* lines 385-392: what the caller is told it has scavenged
scavenged_refcounts(scav) ==
  IF ADLB_RC_IS_NULL(scav) THEN ADLB_NO_RC
  ELSE RC(IF scav.read_refcount > 0 THEN 1 ELSE 0,
          IF scav.write_refcount > 0 THEN 1 ELSE 0)

\* lines 407-408 and 417-418: the count is positive and stays at least 0
refcount_ok(count, incr) == count > 0 /\ count + incr >= 0

\* refcount_impl without the early return of the scavenge request
refcount_impl_noshortcut(t, id, change, scav) ==
  IF change.read_refcount = 0
    THEN refcount_write(t, id, change.write_refcount, scav)
  ELSE IF ~xlb_read_refcount_enabled
    THEN RcResult("INVALID", t, <<>>, FALSE, scavenged_refcounts(scav))
  ELSE IF t[id].permanent
    THEN RcResult("SUCCESS", t, <<>>, FALSE, scavenged_refcounts(scav))
  ELSE IF ~refcount_ok(t[id].read_refcount, change.read_refcount)
    THEN RcResult("SLOTS_NEGATIVE", t, <<>>, FALSE, scavenged_refcounts(scav))
  ELSE refcount_write([t EXCEPT ![id].read_refcount = @ + change.read_refcount],
                      id, change.write_refcount, scav)

\* lines 353-413: the scavenge shortcut and the read part
refcount_impl(t, id, change, scav) ==
  IF ~ADLB_RC_IS_NULL(scav) /\ ~do_gc(t[id], change)
    THEN RcResult("SUCCESS", t, <<>>, FALSE, ADLB_NO_RC)
  ELSE IF change.read_refcount = 0
    THEN refcount_write(t, id, change.write_refcount, scav)
  ELSE IF ~xlb_read_refcount_enabled
    THEN RcResult("INVALID", t, <<>>, FALSE, scavenged_refcounts(scav))
  ELSE IF t[id].permanent
    THEN RcResult("SUCCESS", t, <<>>, FALSE, scavenged_refcounts(scav))
  ELSE IF ~refcount_ok(t[id].read_refcount, change.read_refcount)
    THEN RcResult("SLOTS_NEGATIVE", t, <<>>, FALSE, scavenged_refcounts(scav))
  ELSE refcount_write([t EXCEPT ![id].read_refcount = @ + change.read_refcount],
                      id, change.write_refcount, scav)

\* lines 415-422: the write part
refcount_write(t, id, write_incr, scav) ==
  IF write_incr = 0
    THEN refcount_gc(t, id, <<>>, scav)
  ELSE IF ~refcount_ok(t[id].write_refcount, write_incr)
    THEN RcResult("SLOTS_NEGATIVE", t, <<>>, FALSE, scavenged_refcounts(scav))
  ELSE refcount_close([t EXCEPT ![id].write_refcount = @ + write_incr], id, scav,
                      t[id].write_refcount + write_incr = 0)

\* lines 423-427: the datum is closed when its write_refcount reached 0
refcount_close(t, id, scav, closing) ==
  IF closing
    THEN refcount_gc([t EXCEPT ![id] = data_close(@).datum], id,
                     data_close(t[id]).notifs, scav)
    ELSE refcount_gc(t, id, <<>>, scav)

\* the result of refcount_impl when it has called datum_gc
gc_result(g, notifs, scavenged) == RcResult(g.dc, g.tds, notifs, TRUE, scavenged)

\* lines 430-436: a datum without refcounts is collected
refcount_gc(t, id, notifs, scav) ==
  IF t[id].read_refcount <= 0 /\ t[id].write_refcount <= 0
    THEN gc_result(datum_gc(t, id, scav), notifs, scavenged_refcounts(scav))
    ELSE RcResult("SUCCESS", t, notifs, FALSE, scavenged_refcounts(scav))

\* lines 459-465: after the storage is cleaned up the datum must have no
\* listeners, and is removed from tds
datum_gc_remove(c, id, listeners) ==
  IF c.dc # "SUCCESS" THEN c
  ELSE IF Len(listeners) # 0 THEN DcTds("TYPE", c.tds)
  ELSE DcTds("SUCCESS", TableRemove(c.tds, id))

\* datum_gc without the check for permanent data
datum_gc_nocheck(t, id, scav) ==
  datum_gc_remove(IF t[id].set THEN cleanup_storage(t, id, scav)
                               ELSE DcTds("SUCCESS", t),
                  id, t[id].listeners)

datum_gc(t, id, scav) ==
  IF t[id].permanent THEN DcTds("UNKNOWN", t)
  ELSE datum_gc_remove(IF t[id].set THEN cleanup_storage(t, id, scav)
                                    ELSE DcTds("SUCCESS", t),
                       id, t[id].listeners)

\* release the referands of the stored values, one by one
cleanup_members(t, cells, type, change) ==
  IF cells = <<>> THEN DcTds("SUCCESS", t)
  ELSE cleanup_rest(incr_rc_referand(t, Head(cells), type, change),
                    Tail(cells), type, change)

\* stop at the first referand whose release fails
cleanup_rest(r, cells, type, change) ==
  IF r.dc # "SUCCESS" THEN r ELSE cleanup_members(r.tds, cells, type, change)

\* the order in which the members of a container are visited
RECURSIVE SetToSeq(_)
SetToSeq(S) == IF S = {} THEN <<>>
               ELSE LET x == CHOOSE y \in S : TRUE IN <<x>> \o SetToSeq(S \ {x})

\* the linked keys of a member table, in the order they are visited
LinkedKeys(members) == SetToSeq({k \in DOMAIN members : members[k] # <<>>})

\* the values stored in a member table
MemberCells(members, keys) == [i \in 1 .. Len(keys) |-> members[keys[i]]]

\* the values a datum stores: the members of a container, the value of a scalar
StoredCells(d) ==
  IF d.type = "CONTAINER" THEN MemberCells(d.members, LinkedKeys(d.members))
  ELSE <<d.value>>

\* the type of the values a datum stores
StoredType(d) == IF d.type = "CONTAINER" THEN ContainerValType ELSE d.type

\* free the storage of a datum that is destroyed: every referand embedded in
\* it loses one read refcount, unless the caller scavenges that refcount
cleanup_storage(t, id, scav) ==
  IF t[id].type = "CONTAINER" /\ ~t[id].init THEN DcTds("CRASH", t)
  ELSE IF ~xlb_read_refcount_enabled \/ scav.read_refcount > 0 THEN DcTds("SUCCESS", t)
  ELSE cleanup_members(t, StoredCells(t[id]), StoredType(t[id]), RC(-1, 0))

\* the code and the table of a refcount result
rc_dc_tds(r) == DcTds(r.dc, r.tds)

\* change the refcounts of the data that a value refers to
incr_rc_referand(t, value, type, change) ==
  IF type = "REF" /\ value # <<>>
    THEN rc_dc_tds(data_reference_count(t, value[1], change, NO_SCAVENGE))
    ELSE DcTds("SUCCESS", t)

data_reference_count(t, id, change, scav) ==
  IF id \notin DOMAIN t
    THEN RcResult("NOT_FOUND", t, <<>>, FALSE, ADLB_NO_RC)
    ELSE refcount_impl(t, id, change, scav)

(***************************************************************************)
(* data_store and insert_notifications                                      *)
(***************************************************************************)
\* "no subscript" (a NULL subscript pointer)
NoSub == ""

ADLB_WRITE_RC == RC(0, 1)

\* result of a store: the three tables and the notifications handed back
StoreResult(dc, t, crefs, cix, notifs) ==
  [dc |-> dc, tds |-> t, crefs |-> crefs, cix |-> cix, notifs |-> notifs]

\* one read refcount for the referands, however many references are notified
referand_incr_once(references) == RC(1, 0)

\* the read refcount that the referands of the inserted value gain:
\* one per notified reference
referand_incr(references) == RC(Len(references), 0)

\* lines 1206-1214: the container gives up the read refcount it held for the
\* waiting references
release_waiter_refcount(r1, container_id) ==
  IF r1.dc # "SUCCESS"
    THEN RcResult(r1.dc, r1.tds, <<>>, FALSE, ADLB_NO_RC)
    ELSE refcount_impl(r1.tds, container_id, RC(-1, 0), NO_SCAVENGE)

\* lines 1193-1214: with references waiting and read refcounting enabled the
\* referands of the value gain their refcounts and the container releases one
insert_notifications_refcounts(t, waiting, container_id, inserted_value, value_type, incr) ==
  IF waiting /\ xlb_read_refcount_enabled
    THEN release_waiter_refcount(incr_rc_referand(t, inserted_value, value_type, incr),
                                 container_id)
    ELSE RcResult("SUCCESS", t, <<>>, FALSE, ADLB_NO_RC)

\* lines 1222-1232: the index listeners, reached only without an error before
insert_notifications_listeners(r2, crefs1, cix, s, references) ==
  IF r2.dc # "SUCCESS"
    THEN [dc |-> r2.dc, tds |-> r2.tds, crefs |-> crefs1, cix |-> cix,
          references |-> references, notify_insert |-> <<>>, garbage_collected |-> r2.gc]
    ELSE [dc |-> "SUCCESS", tds |-> r2.tds, crefs |-> crefs1, cix |-> TableRemove(cix, s),
          references |-> references, notify_insert |-> Registered(cix, s),
          garbage_collected |-> r2.gc]

insert_notifications(t, crefs, cix, container_id, subscript, inserted_value, value_type) ==
  insert_notifications_listeners(
    insert_notifications_refcounts(
      t, <<container_id, subscript>> \in DOMAIN crefs, container_id, inserted_value,
      value_type, referand_incr(Registered(crefs, <<container_id, subscript>>))),
    TableRemove(crefs, <<container_id, subscript>>), cix, <<container_id, subscript>>,
    Registered(crefs, <<container_id, subscript>>))

\* a store that also writes a closed datum
may_write_always(d) == TRUE

\* may a store without subscript assign the datum d ?  (lines 689-692)
may_write(d) == d.write_refcount > 0

\* a store that assigns any subscript, linked or not
may_insert_always(d, subscript) == TRUE

\* may a store assign the subscript of container datum d ?  (lines 757-764)
may_insert(d, subscript) == subscript \notin DOMAIN d.members \/ d.members[subscript] = <<>>

\* the store result of the refcount result of the decrement
store_decr_result(r, crefs, cix, notifs) ==
  StoreResult(r.dc, r.tds, crefs, cix, [notifs EXCEPT !.close_notify = r.notifs])

\* lines 800-815: the decrement at the end of a store
store_decr(t, id, refcount_decr, freed_datum, notifs, crefs, cix) ==
  IF refcount_decr.write_refcount > 0 \/ refcount_decr.read_refcount > 0
    THEN IF freed_datum
           THEN StoreResult("SLOTS_NEGATIVE", t, crefs, cix, notifs)
           ELSE store_decr_result(
                  refcount_impl(t, id,
                                RC(IF xlb_read_refcount_enabled
                                     THEN -refcount_decr.read_refcount ELSE 0,
                                   -refcount_decr.write_refcount),
                                NO_SCAVENGE),
                  crefs, cix, notifs)
    ELSE StoreResult("SUCCESS", t, crefs, cix, notifs)

\* what the value part of a store leaves: a store result and freed_datum
ValueStored(dc, t, crefs, cix, notifs, freed_datum) ==
  [dc |-> dc, tds |-> t, crefs |-> crefs, cix |-> cix, notifs |-> notifs,
   freed_datum |-> freed_datum]

\* the notifications of an insert
insert_notifs(n) ==
  [close_notify |-> <<>>, insert_notify |-> n.notify_insert, references |-> n.references]

\* lines 766-795: the result of the insert is that of its notifications
store_inserted(n) ==
  ValueStored(n.dc, n.tds, n.crefs, n.cix, insert_notifs(n), n.garbage_collected)

\* lines 685-796: the checks and the assignment of the value
store_value(t, crefs, cix, id, subscript, value, type) ==
  IF id \notin DOMAIN t
    THEN ValueStored("NOT_FOUND", t, crefs, cix, ADLB_NO_NOTIFS, FALSE)
  ELSE IF ~may_write(t[id])
    THEN ValueStored("DOUBLE_WRITE", t, crefs, cix, ADLB_NO_NOTIFS, FALSE)
  ELSE IF subscript = NoSub
    THEN IF type # t[id].type
           THEN ValueStored("TYPE", t, crefs, cix, ADLB_NO_NOTIFS, FALSE)
           ELSE ValueStored("SUCCESS", [t EXCEPT ![id].value = <<value>>, ![id].set = TRUE],
                            crefs, cix, ADLB_NO_NOTIFS, FALSE)
  ELSE IF t[id].type # "CONTAINER"
    THEN ValueStored("TYPE", t, crefs, cix, ADLB_NO_NOTIFS, FALSE)
  ELSE IF ~t[id].init
    \* the container was never initialised: its member table is a wild pointer
    THEN ValueStored("CRASH", t, crefs, cix, ADLB_NO_NOTIFS, FALSE)
  ELSE IF type # ContainerValType
    THEN ValueStored("TYPE", t, crefs, cix, ADLB_NO_NOTIFS, FALSE)
  ELSE IF ~may_insert(t[id], subscript)
    THEN ValueStored("DOUBLE_WRITE", t, crefs, cix, ADLB_NO_NOTIFS, FALSE)
  ELSE store_inserted(
         insert_notifications([t EXCEPT ![id].members = TableSet(@, subscript, <<value>>)],
                              crefs, cix, id, subscript, <<value>>, ContainerValType))

\* lines 798-817: an error of the value part is returned, else the decrement
\* is applied
store_refcounts(v, id, refcount_decr) ==
  IF v.dc # "SUCCESS"
    THEN StoreResult(v.dc, v.tds, v.crefs, v.cix, v.notifs)
    ELSE store_decr(v.tds, id, refcount_decr, v.freed_datum, v.notifs, v.crefs, v.cix)

data_store(t, crefs, cix, id, subscript, value, type, refcount_decr) ==
  store_refcounts(store_value(t, crefs, cix, id, subscript, value, type),
                  id, refcount_decr)

\* no operation may take a refcount above the cap of the explored states
RefcountCap == MaxRefcount + 1
WithinCap(t) == \A id \in DOMAIN t :
   t[id].read_refcount <= RefcountCap /\ t[id].write_refcount <= RefcountCap

\* the set-reference tasks of a store: one per notified reference
RefTasks(references, value, type) ==
  [i \in 1 .. Len(references) |-> [id |-> references[i], value |-> value, type |-> type]]

\* apply the outcome r of a store to the state
ApplyStore(name, id, subscript, value, type, r) ==
  IF r.dc = "CRASH"
    THEN /\ crashed' = TRUE
         /\ lastOp' = Op(name, id, subscript, "CRASH", ADLB_NO_NOTIFS, <<>>)
         /\ UNCHANGED <<tds, container_references, container_ix_listeners, notif_work>>
    ELSE /\ WithinCap(r.tds)
         /\ tds' = r.tds
         /\ container_references' = r.crefs
         /\ container_ix_listeners' = r.cix
         /\ lastOp' = Op(name, id, subscript, r.dc, r.notifs, <<value>>)
         /\ crashed' = crashed
         \* the client applies the notifications of a successful store only
         /\ notif_work' = IF r.dc = "SUCCESS"
                             THEN notif_work \o RefTasks(r.notifs.references, value, type)
                             ELSE notif_work
         /\ Len(notif_work') <= MaxNotifWork

\* ADLB_Store as the server executes it
Store(id, subscript, value, type, refcount_decr) ==
  /\ ~crashed
  /\ ApplyStore("store", id, subscript, value, type,
                data_store(tds, container_references, container_ix_listeners,
                           id, subscript, value, type, refcount_decr))
  /\ UNCHANGED xlb_read_refcount_enabled
  /\ UNCHANGED nonDataVars

\* apply the outcome r of the store of a set-reference task
ApplySetRef(task, r) ==
  IF r.dc = "CRASH"
    THEN /\ crashed' = TRUE
         /\ lastOp' = Op("set_ref", task.id, NoSub, "CRASH", ADLB_NO_NOTIFS, <<>>)
         /\ UNCHANGED <<tds, container_references, container_ix_listeners, notif_work>>
    ELSE /\ tds' = r.tds
         /\ container_references' = r.crefs
         /\ container_ix_listeners' = r.cix
         /\ lastOp' = Op("set_ref", task.id, NoSub, r.dc, r.notifs, <<task.value>>)
         /\ crashed' = crashed
         /\ notif_work' = Tail(notif_work)

\* xlb_set_ref_and_notify: the oldest set-reference task is applied
xlb_set_ref_and_notify ==
  /\ ~crashed
  /\ notif_work # <<>>
  /\ ApplySetRef(Head(notif_work),
                 data_store(tds, container_references, container_ix_listeners,
                            Head(notif_work).id, NoSub, Head(notif_work).value,
                            Head(notif_work).type, ADLB_WRITE_RC))
  /\ UNCHANGED xlb_read_refcount_enabled
  /\ UNCHANGED nonDataVars

(***************************************************************************)
(* the codes that the client calls return for the data code of the server   *)
(***************************************************************************)
\* ADLB_DATA_CHECK: any data code but success makes the caller return
\* ADLB_ERROR
ADLB_DATA_CHECK(dc) == IF dc # "SUCCESS" THEN "ADLB_ERROR" ELSE "ADLB_SUCCESS"

\* xlb_store: DOUBLE_WRITE is told apart before the check
xlb_store_code(dc) ==
  IF dc = "DOUBLE_WRITE" THEN "ADLB_REJECTED" ELSE ADLB_DATA_CHECK(dc)

\* ADLBP_Create_impl: the check of the data code, nothing is told apart
ADLBP_Create_impl_code(dc) ==
  IF ADLB_DATA_CHECK(dc) # "ADLB_SUCCESS"
    THEN ADLB_DATA_CHECK(dc)
    ELSE IF dc # "SUCCESS" THEN "ADLB_ERROR" ELSE "ADLB_SUCCESS"

(***************************************************************************)
(* the other operations of the data store                                   *)
(***************************************************************************)
\* outcome of an operation that leaves the three tables as they are
ReadOnly(name, id, subscript, dc, result) ==
  /\ lastOp' = Op(name, id, subscript, dc, ADLB_NO_NOTIFS, result)
  /\ crashed' = (dc = "CRASH")
  /\ UNCHANGED <<tds, container_references, container_ix_listeners, notif_work>>

\* outcome of a refcount operation r
ApplyRc(name, id, subscript, r, result) ==
  IF r.dc = "CRASH"
    THEN ReadOnly(name, id, subscript, "CRASH", <<>>)
    ELSE /\ WithinCap(r.tds)
         /\ tds' = r.tds
         /\ lastOp' = Op(name, id, subscript, r.dc,
                         [ADLB_NO_NOTIFS EXCEPT !.close_notify = r.notifs], result)
         /\ UNCHANGED <<container_references, container_ix_listeners, notif_work, crashed>>

\* ADLB_Refcount_incr: the client part (xlb_refcount_incr) drops the read
\* change when read refcounting is off and sends nothing for a null change
RefcountIncr(id, change) ==
  LET c == IF xlb_read_refcount_enabled THEN change
           ELSE [change EXCEPT !.read_refcount = 0]
  IN
  /\ ~crashed
  /\ IF id \in DOMAIN tds
       THEN /\ c.read_refcount > 0 => tds[id].read_refcount + c.read_refcount <= MaxRefcount
            /\ c.write_refcount > 0 => tds[id].write_refcount + c.write_refcount <= MaxRefcount
       ELSE TRUE
  /\ IF ADLB_RC_IS_NULL(c)
       THEN ReadOnly("refcount_incr", id, NoSub, "SUCCESS", <<>>)
       ELSE ApplyRc("refcount_incr", id, NoSub,
                    data_reference_count(tds, id, c, NO_SCAVENGE), <<>>)
  /\ UNCHANGED xlb_read_refcount_enabled
  /\ UNCHANGED nonDataVars

\* ADLBP_Read_refcount_enable
ADLBP_Read_refcount_enable ==
  /\ ~crashed
  /\ ~xlb_read_refcount_enabled
  /\ xlb_read_refcount_enabled' = TRUE
  /\ lastOp' = Op("read_refcount_enable", 0, NoSub, "SUCCESS", ADLB_NO_NOTIFS, <<>>)
  /\ UNCHANGED <<tds, container_references, container_ix_listeners, notif_work, crashed>>
  /\ UNCHANGED nonDataVars

\* data_subscribe.  With a subscript *result is never written: the caller
\* reads whatever its variable held.
data_subscribe(id, subscript, rank) ==
  /\ ~crashed
  /\ IF id \notin DOMAIN tds
       THEN ReadOnly("subscribe", id, subscript, "NOT_FOUND", <<>>)
     ELSE IF subscript # NoSub
       THEN IF tds[id].type # "CONTAINER"
              THEN ReadOnly("subscribe", id, subscript, "INVALID", <<>>)
              ELSE LET pair == <<id, subscript>>
                       listeners == IF pair \in DOMAIN container_ix_listeners
                                      THEN container_ix_listeners[pair] ELSE <<>>
                   IN /\ container_ix_listeners' =
                           TableSet(container_ix_listeners, pair, UniqueInsert(listeners, rank))
                      /\ \E garbage \in {0, 1} :
                           lastOp' = Op("subscribe", id, subscript, "SUCCESS",
                                        ADLB_NO_NOTIFS, <<garbage>>)
                      /\ UNCHANGED <<tds, container_references, notif_work, crashed>>
     ELSE IF tds[id].write_refcount = 0
       THEN ReadOnly("subscribe", id, subscript, "SUCCESS", <<0>>)
       ELSE /\ tds' = [tds EXCEPT ![id].listeners = UniqueInsert(@, rank)]
            /\ lastOp' = Op("subscribe", id, subscript, "SUCCESS", ADLB_NO_NOTIFS, <<1>>)
            /\ UNCHANGED <<container_references, container_ix_listeners, notif_work, crashed>>
  /\ UNCHANGED xlb_read_refcount_enabled
  /\ UNCHANGED nonDataVars

\* the entries of the table of locks for the id
LockEntries(table, id) == {e \in table : e[1] = id}

\* data_lock that grants the lock without searching the table of locks
data_lock_nosearch(id, rank) ==
  /\ ~crashed
  /\ IF id \notin DOMAIN tds
       THEN lastOp' = Op("lock", id, NoSub, "NOT_FOUND", ADLB_NO_NOTIFS, <<>>)
            /\ UNCHANGED locked
       ELSE lastOp' = Op("lock", id, NoSub, "SUCCESS", ADLB_NO_NOTIFS, <<TRUE>>)
            /\ locked' = locked \cup {<<id, rank>>}
  /\ UNCHANGED nonLockVars

\* data_lock; result = <<acquired>>
data_lock(id, rank) ==
  /\ ~crashed
  /\ IF id \notin DOMAIN tds
       THEN lastOp' = Op("lock", id, NoSub, "NOT_FOUND", ADLB_NO_NOTIFS, <<>>)
            /\ UNCHANGED locked
     ELSE IF LockEntries(locked, id) # {}
       THEN lastOp' = Op("lock", id, NoSub, "SUCCESS", ADLB_NO_NOTIFS, <<FALSE>>)
            /\ UNCHANGED locked
       ELSE lastOp' = Op("lock", id, NoSub, "SUCCESS", ADLB_NO_NOTIFS, <<TRUE>>)
            /\ locked' = locked \cup {<<id, rank>>}
  /\ UNCHANGED nonLockVars

\* data_unlock: table_lp_remove takes one entry of the id out of the table
data_unlock(id) ==
  /\ ~crashed
  /\ IF LockEntries(locked, id) = {}
       THEN lastOp' = Op("unlock", id, NoSub, "NOT_FOUND", ADLB_NO_NOTIFS, <<>>)
            /\ UNCHANGED locked
       ELSE lastOp' = Op("unlock", id, NoSub, "SUCCESS", ADLB_NO_NOTIFS, <<>>)
            /\ \E e \in LockEntries(locked, id) : locked' = locked \ {e}
  /\ UNCHANGED nonLockVars

\* what a further container_reference on a subscribed pair does to the
\* read refcount of the container (lines 647-658)
further_reference_refcount(read_refcount) == read_refcount - 1

\* data_container_reference.  The datum is never checked to be a container:
\* on another type val_type and the member table are whatever the storage
\* of the datum holds.
data_container_reference(container_id, subscript, reference, ref_type) ==
  /\ ~crashed
  /\ IF container_id \notin DOMAIN tds
       THEN ReadOnly("container_reference", container_id, subscript, "NOT_FOUND", <<>>)
     ELSE LET d == tds[container_id]
              pair == <<container_id, subscript>>
              found == pair \in DOMAIN container_references
              listeners == IF found THEN container_references[pair] ELSE <<>>
          IN
     IF d.type # "CONTAINER" \/ ~d.init
       THEN \E dc \in {"TYPE", "CRASH"} :
              ReadOnly("container_reference", container_id, subscript, dc, <<>>)
     ELSE IF ref_type # ContainerValType
       THEN ReadOnly("container_reference", container_id, subscript, "TYPE", <<>>)
     ELSE IF subscript \in DOMAIN d.members /\ d.members[subscript] # <<>>
       THEN ReadOnly("container_reference", container_id, subscript, "SUCCESS",
                     d.members[subscript])
     ELSE IF d.write_refcount <= 0 \/ d.read_refcount <= 0
       THEN ReadOnly("container_reference", container_id, subscript, "INVALID", <<>>)
     ELSE IF found /\ d.read_refcount < 2
       \* assert(d->read_refcount >= 2)
       THEN ReadOnly("container_reference", container_id, subscript, "CRASH", <<>>)
     ELSE /\ tds' = IF found
                      THEN [tds EXCEPT ![container_id].read_refcount =
                                          further_reference_refcount(@)]
                      ELSE tds
          /\ container_references' =
               TableSet(container_references, pair, UniqueInsert(listeners, reference))
          /\ lastOp' = Op("container_reference", container_id, subscript, "SUCCESS",
                          ADLB_NO_NOTIFS, <<>>)
          /\ UNCHANGED <<container_ix_listeners, notif_work, crashed>>
  /\ UNCHANGED xlb_read_refcount_enabled
  /\ UNCHANGED nonDataVars

\* data_insert_atomic that reports a reserved cell without a value as created
data_insert_atomic_relink(container_id, subscript) ==
  /\ ~crashed
  /\ IF container_id \notin DOMAIN tds
       THEN ReadOnly("insert_atomic", container_id, subscript, "NOT_FOUND", <<>>)
     ELSE LET d == tds[container_id] IN
     IF d.type # "CONTAINER"
       THEN ReadOnly("insert_atomic", container_id, subscript, "TYPE", <<>>)
     ELSE IF ~d.init
       THEN ReadOnly("insert_atomic", container_id, subscript, "CRASH", <<>>)
     ELSE IF subscript \in DOMAIN d.members
       THEN ReadOnly("insert_atomic", container_id, subscript, "SUCCESS",
                     <<d.members[subscript] = <<>>, d.members[subscript] # <<>> >>)
     ELSE /\ tds' = [tds EXCEPT ![container_id].members = TableSet(@, subscript, <<>>)]
          /\ \E garbage \in BOOLEAN :
               lastOp' = Op("insert_atomic", container_id, subscript, "SUCCESS",
                            ADLB_NO_NOTIFS, <<TRUE, garbage>>)
          /\ UNCHANGED <<container_references, container_ix_listeners, notif_work, crashed>>
  /\ UNCHANGED xlb_read_refcount_enabled
  /\ UNCHANGED nonDataVars

\* data_insert_atomic that reports the cell as created without reserving it
data_insert_atomic_noadd(container_id, subscript) ==
  /\ ~crashed
  /\ IF container_id \notin DOMAIN tds
       THEN ReadOnly("insert_atomic", container_id, subscript, "NOT_FOUND", <<>>)
     ELSE LET d == tds[container_id] IN
     IF d.type # "CONTAINER"
       THEN ReadOnly("insert_atomic", container_id, subscript, "TYPE", <<>>)
     ELSE IF ~d.init
       THEN ReadOnly("insert_atomic", container_id, subscript, "CRASH", <<>>)
     ELSE IF subscript \in DOMAIN d.members
       THEN ReadOnly("insert_atomic", container_id, subscript, "SUCCESS",
                     <<FALSE, d.members[subscript] # <<>> >>)
     ELSE \E garbage \in BOOLEAN :
            ReadOnly("insert_atomic", container_id, subscript, "SUCCESS", <<TRUE, garbage>>)
  /\ UNCHANGED xlb_read_refcount_enabled
  /\ UNCHANGED nonDataVars

\* data_insert_atomic; result = <<created, value_present>>
data_insert_atomic(container_id, subscript) ==
  /\ ~crashed
  /\ IF container_id \notin DOMAIN tds
       THEN ReadOnly("insert_atomic", container_id, subscript, "NOT_FOUND", <<>>)
     ELSE LET d == tds[container_id] IN
     IF d.type # "CONTAINER"
       THEN ReadOnly("insert_atomic", container_id, subscript, "TYPE", <<>>)
     ELSE IF ~d.init
       THEN ReadOnly("insert_atomic", container_id, subscript, "CRASH", <<>>)
     ELSE IF subscript \in DOMAIN d.members
       THEN ReadOnly("insert_atomic", container_id, subscript, "SUCCESS",
                     <<FALSE, d.members[subscript] # <<>> >>)
     ELSE /\ tds' = [tds EXCEPT ![container_id].members = TableSet(@, subscript, <<>>)]
          \* *value_present is not written on this path
          /\ \E garbage \in BOOLEAN :
               lastOp' = Op("insert_atomic", container_id, subscript, "SUCCESS",
                            ADLB_NO_NOTIFS, <<TRUE, garbage>>)
          /\ UNCHANGED <<container_references, container_ix_listeners, notif_work, crashed>>
  /\ UNCHANGED xlb_read_refcount_enabled
  /\ UNCHANGED nonDataVars

\* data_retrieve without the test for a reserved cell that was never linked
data_retrieve_unlinked(t, id, subscript) ==
  IF id \notin DOMAIN t THEN [dc |-> "NOT_FOUND", value |-> <<>>]
  ELSE LET d == t[id] IN
  IF subscript = NoSub
    THEN IF ~d.set THEN [dc |-> "UNSET", value |-> <<>>]
         ELSE IF d.type = "CONTAINER"
           THEN IF d.init THEN [dc |-> "SUCCESS", value |-> <<d.members>>]
                ELSE [dc |-> "CRASH", value |-> <<>>]
         ELSE [dc |-> "SUCCESS", value |-> d.value]
  ELSE IF d.type # "CONTAINER" THEN [dc |-> "INVALID", value |-> <<>>]
  ELSE IF ~d.init THEN [dc |-> "CRASH", value |-> <<>>]
  ELSE IF subscript \notin DOMAIN d.members
    THEN [dc |-> "SUBSCRIPT_NOT_FOUND", value |-> <<>>]
  ELSE [dc |-> "SUCCESS", value |-> d.members[subscript]]

\* data_retrieve: the code and the value (a datum is packed as it is stored)
data_retrieve(t, id, subscript) ==
  IF id \notin DOMAIN t THEN [dc |-> "NOT_FOUND", value |-> <<>>]
  ELSE LET d == t[id] IN
  IF subscript = NoSub
    THEN IF ~d.set THEN [dc |-> "UNSET", value |-> <<>>]
         ELSE IF d.type = "CONTAINER"
           THEN IF d.init THEN [dc |-> "SUCCESS", value |-> <<d.members>>]
                ELSE [dc |-> "CRASH", value |-> <<>>]
         ELSE [dc |-> "SUCCESS", value |-> d.value]
  ELSE IF d.type # "CONTAINER" THEN [dc |-> "INVALID", value |-> <<>>]
  ELSE IF ~d.init THEN [dc |-> "CRASH", value |-> <<>>]
  ELSE IF subscript \notin DOMAIN d.members \/ d.members[subscript] = <<>>
    THEN [dc |-> "SUBSCRIPT_NOT_FOUND", value |-> <<>>]
  ELSE [dc |-> "SUCCESS", value |-> d.members[subscript]]

\* the read decrement that a retrieve or enumerate asks for is applied when
\* the operation succeeded and read refcounting is enabled
ReadAndRelease(name, id, subscript, dc, result, decr_read) ==
  IF dc # "SUCCESS" \/ decr_read = 0 \/ ~xlb_read_refcount_enabled
    THEN ReadOnly(name, id, subscript, dc, result)
    ELSE ApplyRc(name, id, subscript,
                 refcount_impl(tds, id, RC(-decr_read, 0), NO_SCAVENGE), result)

\* the outcome r of data_retrieve, then the read decrement
RetrieveResult(id, subscript, r, decr_read) ==
  ReadAndRelease("retrieve", id, subscript, r.dc, r.value, decr_read)

\* ADLB_Retrieve: data_retrieve, then the read decrement asked for with it
Retrieve(id, subscript, decr_read) ==
  /\ ~crashed
  /\ RetrieveResult(id, subscript, data_retrieve(tds, id, subscript), decr_read)
  /\ UNCHANGED xlb_read_refcount_enabled
  /\ UNCHANGED nonDataVars

\* ADLBP_Retrieve: what the caller receives for the code dc of the server and
\* a value of the given length: the return code, and *length if it is written
ADLBP_Retrieve_code(dc, length) ==
  IF dc = "NOT_FOUND" \/ dc = "SUBSCRIPT_NOT_FOUND"
    THEN [code |-> "ADLB_SUCCESS", length_written |-> TRUE, length |-> -1]
  ELSE IF dc # "SUCCESS"
    THEN [code |-> "ADLB_ERROR", length_written |-> FALSE, length |-> 0]
  ELSE [code |-> "ADLB_SUCCESS", length_written |-> TRUE, length |-> length]

\* enumerate_slice_size
enumerate_slice_size(offset, count, actual_size) ==
  LET post_offset == IF actual_size - offset < 0 THEN 0 ELSE actual_size - offset
  IN IF count < 0 THEN post_offset
     ELSE IF count <= post_offset THEN count
     ELSE post_offset

\* extract_members: the number of members packed into the output; c is the
\* count of members passed so far, left the number of items still to visit
RECURSIVE extract_members_loop(_, _, _, _, _)
extract_members_loop(c, left, count, offset, packed) ==
  IF left = 0 THEN packed
  ELSE IF c < offset THEN extract_members_loop(c + 1, left - 1, count, offset, packed)
  ELSE IF c >= count + offset /\ count # -1
    THEN extract_members_loop(c, left - 1, count, offset, packed)
  ELSE extract_members_loop(c + 1, left - 1, count, offset, packed + 1)

extract_members(count, offset, size) == extract_members_loop(0, size, count, offset, 0)

\* data_enumerate of the keys: the code, the number of entries reported
\* (*actual) and the number of entries packed into the result
data_enumerate(t, id, count, offset) ==
  IF id \notin DOMAIN t THEN [dc |-> "NOT_FOUND", actual |-> <<>>]
  ELSE LET d == t[id] IN
  IF d.type # "CONTAINER" THEN [dc |-> "TYPE", actual |-> <<>>]
  ELSE IF ~d.init THEN [dc |-> "CRASH", actual |-> <<>>]
  ELSE [dc |-> "SUCCESS",
        actual |-> <<enumerate_slice_size(offset, count, Cardinality(DOMAIN d.members)),
                     extract_members(count, offset, Cardinality(DOMAIN d.members))>>]

\* the outcome r of data_enumerate, then the read decrement
EnumerateResult(id, r, decr_read) ==
  ReadAndRelease("enumerate", id, NoSub, r.dc, r.actual, decr_read)

\* ADLB_Enumerate: data_enumerate, then the read decrement asked for with it
Enumerate(id, count, offset, decr_read) ==
  /\ ~crashed
  /\ EnumerateResult(id, data_enumerate(tds, id, count, offset), decr_read)
  /\ UNCHANGED xlb_read_refcount_enabled
  /\ UNCHANGED nonDataVars

(***************************************************************************)
(* The codec of the typed values (adlb_types.c).  A buffer is a sequence    *)
(* of bytes.  The storage of an integer is the integer, of a string its     *)
(* bytes, of a container <<key_type, val_type, members>> with members a     *)
(* function from keys (byte sequences) to storages, and of a multiset       *)
(* <<elem_type, elems>> with elems the sequence of its storages.            *)
(***************************************************************************)
\* the size of the padded length field in front of a compound value
VINT_MAX_BYTES == 10

\* the size of a packed integer
Int64Bytes == 8

Zeros(n) == [i \in 1 .. n |-> 0]

\* the bytes of a buffer from offset pos on, length of them
SubBuf(buffer, pos, length) == SubSeq(buffer, pos + 1, pos + length)

\* adlb_data_type
TypeCode(type) ==
  CASE type = "NULL" -> 0
    [] type = "INTEGER" -> 1
    [] type = "STRING" -> 3
    [] type = "CONTAINER" -> 5
    [] type = "MULTISET" -> 6

CodeType(code) ==
  IF \E type \in {"NULL", "INTEGER", "STRING", "CONTAINER", "MULTISET"} : TypeCode(type) = code
    THEN CHOOSE type \in {"NULL", "INTEGER", "STRING", "CONTAINER", "MULTISET"} :
           TypeCode(type) = code
    ELSE "UNKNOWN"

\* vint_encode of a value that is not negative: six bits in the first byte,
\* seven in each further one, the top bit of a byte says that more follow
RECURSIVE vint_encode_more(_)
vint_encode_more(val) ==
  IF val = 0 THEN <<>>
  ELSE IF val \div 128 # 0 THEN <<(val % 128) + 128>> \o vint_encode_more(val \div 128)
  ELSE <<val % 128>>

vint_encode(val) ==
  IF val \div 64 # 0 THEN <<(val % 64) + 128>> \o vint_encode_more(val \div 64)
  ELSE <<val % 64>>

\* vint_decode at offset pos with length bytes available: the number of
\* bytes read (-1 if the bytes run out) and the value
RECURSIVE vint_decode_more(_, _, _, _, _, _)
vint_decode_more(buffer, pos, length, i, scale, val) ==
  IF i >= length \/ pos + i >= Len(buffer) THEN [vint_len |-> -1, val |-> 0]
  ELSE IF buffer[pos + i + 1] >= 128
    THEN vint_decode_more(buffer, pos, length, i + 1, scale * 128,
                          val + (buffer[pos + i + 1] % 128) * scale)
  ELSE [vint_len |-> i + 1, val |-> val + buffer[pos + i + 1] * scale]

vint_decode(buffer, pos, length) ==
  IF length < 1 \/ pos >= Len(buffer) THEN [vint_len |-> -1, val |-> 0]
  ELSE IF buffer[pos + 1] >= 128
    THEN vint_decode_more(buffer, pos, length, 1, 64, buffer[pos + 1] % 64)
  ELSE IF (buffer[pos + 1] \div 64) % 2 = 1
    THEN [vint_len |-> 1, val |-> -(buffer[pos + 1] % 64)]
  ELSE [vint_len |-> 1, val |-> buffer[pos + 1]]

\* ADLB_pack_pad_size
ADLB_pack_pad_size(type) == type = "MULTISET" \/ type = "CONTAINER"

\* ADLB_Pack_integer: the bytes of the int64_t, lowest first
RECURSIVE IntegerBytes(_, _)
IntegerBytes(i, n) ==
  IF n = 0 THEN <<>> ELSE <<i % 256>> \o IntegerBytes(i \div 256, n - 1)

ADLB_Pack_integer(i) == IntegerBytes(i, Int64Bytes)

\* ADLB_Pack_string: the bytes of the string and its terminator
ADLB_Pack_string(str) == str \o <<0>>

RECURSIVE BytesInteger(_)
BytesInteger(bytes) ==
  IF Len(bytes) = 1 THEN (IF bytes[1] >= 128 THEN bytes[1] - 256 ELSE bytes[1])
  ELSE bytes[1] + 256 * BytesInteger(Tail(bytes))

ADLB_Unpack_integer(buffer) ==
  IF Len(buffer) # Int64Bytes THEN [dc |-> "INVALID", d |-> <<>>]
  ELSE [dc |-> "SUCCESS", d |-> BytesInteger(buffer)]

ADLB_Unpack_string(buffer) ==
  IF Len(buffer) < 1 \/ buffer[Len(buffer)] # 0 THEN [dc |-> "INVALID", d |-> <<>>]
  ELSE [dc |-> "SUCCESS", d |-> SubBuf(buffer, 0, Len(buffer) - 1)]

\* the length field of ADLB_Append_buffer
LengthPrefix(type, length) ==
  IF ADLB_pack_pad_size(type)
    THEN vint_encode(length) \o Zeros(VINT_MAX_BYTES - Len(vint_encode(length)))
    ELSE vint_encode(length)

\* ADLB_Append_buffer
ADLB_Append_buffer(type, data, prefix_len, output) ==
  IF prefix_len THEN output \o LengthPrefix(type, Len(data)) \o data
  ELSE output \o data

\* ADLB_Pack_container_hdr
ADLB_Pack_container_hdr(elems, key_type, val_type, output) ==
  output \o vint_encode(TypeCode(key_type)) \o vint_encode(TypeCode(val_type))
         \o vint_encode(elems)

\* ADLB_Pack_multiset_hdr
ADLB_Pack_multiset_hdr(elems, elem_type, output) ==
  output \o vint_encode(TypeCode(elem_type)) \o vint_encode(elems)

\* vint_encode(val, buffer + start_pos): the bytes written over the buffer
WriteVint(buffer, start_pos, val) ==
  [i \in 1 .. Len(buffer) |->
     IF i > start_pos /\ i <= start_pos + Len(vint_encode(val))
       THEN vint_encode(val)[i - start_pos]
       ELSE buffer[i]]

\* the actual size written to the place reserved at start_pos
SizePrefixed(output, start_pos) ==
  WriteVint(output, start_pos, Len(output) - start_pos - VINT_MAX_BYTES)

RECURSIVE ADLB_Pack(_, _)
RECURSIVE ADLB_Pack_buffer(_, _, _, _)
RECURSIVE ADLB_Pack_members(_, _, _)
RECURSIVE ADLB_Pack_elems(_, _, _)

\* the loop of ADLB_Pack_container over the members in the order of the table
ADLB_Pack_members(container, keys, output) ==
  IF keys = {} THEN output
  ELSE ADLB_Pack_members(container, keys \ {CHOOSE key \in keys : TRUE},
         ADLB_Pack_buffer(container[3][CHOOSE key \in keys : TRUE], container[2], TRUE,
           ADLB_Append_buffer("NULL", CHOOSE key \in keys : TRUE, TRUE, output)))

\* ADLB_Pack_container
ADLB_Pack_container(container, output) ==
  ADLB_Pack_members(container, DOMAIN container[3],
    ADLB_Pack_container_hdr(Cardinality(DOMAIN container[3]), container[1], container[2],
                            output))

\* the loops of ADLB_Pack_multiset over the elements from the i-th on
ADLB_Pack_elems(ms, i, output) ==
  IF i > Len(ms[2]) THEN output
  ELSE ADLB_Pack_elems(ms, i + 1, ADLB_Pack_buffer(ms[2][i], ms[1], TRUE, output))

\* ADLB_Pack_multiset
ADLB_Pack_multiset(ms, output) ==
  ADLB_Pack_elems(ms, 1, ADLB_Pack_multiset_hdr(Len(ms[2]), ms[1], output))

\* the compound branch of ADLB_Pack_buffer
ADLB_Pack_compound(d, type, output) ==
  IF type = "CONTAINER" THEN ADLB_Pack_container(d, output)
  ELSE ADLB_Pack_multiset(d, output)

\* ADLB_Pack_buffer: the output with the packed value appended
ADLB_Pack_buffer(d, type, prefix_len, output) ==
  IF ADLB_pack_pad_size(type)
    THEN IF prefix_len
           THEN SizePrefixed(ADLB_Pack_compound(d, type, output \o Zeros(VINT_MAX_BYTES)),
                             Len(output))
           ELSE ADLB_Pack_compound(d, type, output)
    ELSE ADLB_Append_buffer(type, ADLB_Pack(d, type), prefix_len, output)

\* ADLB_Pack: the binary representation of the datum
ADLB_Pack(d, type) ==
  CASE type = "INTEGER" -> ADLB_Pack_integer(d)
    [] type = "STRING" -> ADLB_Pack_string(d)
    [] OTHER -> ADLB_Pack_buffer(d, type, FALSE, <<>>)

\* ADLB_Unpack_buffer that takes the length field of every type as unpadded
ADLB_Unpack_buffer_unpadded(type, buffer, pos) ==
  IF pos >= Len(buffer) THEN [dc |-> "DONE", entry |-> <<>>, pos |-> pos]
  ELSE LET v == vint_decode(buffer, pos, Len(buffer) - pos) IN
  IF v.vint_len < 1 \/ v.val < 0 \/ v.val > Len(buffer) - pos - v.vint_len
    THEN [dc |-> "INVALID", entry |-> <<>>, pos |-> pos]
  ELSE [dc |-> "SUCCESS", entry |-> SubBuf(buffer, pos + v.vint_len, v.val),
        pos |-> pos + v.vint_len + v.val]

\* the size that the length field of the type takes
vint_padded_len(type, vint_len) ==
  IF ADLB_pack_pad_size(type) THEN VINT_MAX_BYTES ELSE vint_len

\* ADLB_Unpack_buffer: the code, the entry and the position after it
ADLB_Unpack_buffer(type, buffer, pos) ==
  IF pos >= Len(buffer) THEN [dc |-> "DONE", entry |-> <<>>, pos |-> pos]
  ELSE LET v == vint_decode(buffer, pos, Len(buffer) - pos) IN
  IF \/ v.vint_len < 1
     \/ v.val < 0
     \/ v.val > Len(buffer) - pos - vint_padded_len(type, v.vint_len)
    THEN [dc |-> "INVALID", entry |-> <<>>, pos |-> pos]
  ELSE [dc |-> "SUCCESS",
        entry |-> SubBuf(buffer, pos + vint_padded_len(type, v.vint_len), v.val),
        pos |-> pos + vint_padded_len(type, v.vint_len) + v.val]

\* ADLB_Unpack_container_hdr, from the three numbers decoded
container_hdr(key_type64, val_type64, entries64, pos) ==
  IF key_type64.vint_len < 1 \/ val_type64.vint_len < 1 \/ entries64.vint_len < 0
     \/ entries64.val < 0
    THEN [dc |-> "INVALID", pos |-> pos, entries |-> 0, key_type |-> "NULL",
          val_type |-> "NULL"]
    ELSE [dc |-> "SUCCESS",
          pos |-> pos + key_type64.vint_len + val_type64.vint_len + entries64.vint_len,
          entries |-> entries64.val,
          key_type |-> CodeType(key_type64.val),
          val_type |-> CodeType(val_type64.val)]

\* the second and the third number of a header whose first is key_type64
container_hdr_rest(data, pos, key_type64) ==
  IF key_type64.vint_len < 1
    THEN container_hdr(key_type64, key_type64, key_type64, pos)
  ELSE IF vint_decode(data, pos + key_type64.vint_len,
                      Len(data) - pos - key_type64.vint_len).vint_len < 1
    THEN container_hdr(key_type64, [vint_len |-> -1, val |-> 0], key_type64, pos)
  ELSE container_hdr(
         key_type64,
         vint_decode(data, pos + key_type64.vint_len, Len(data) - pos - key_type64.vint_len),
         vint_decode(data,
           pos + key_type64.vint_len
               + vint_decode(data, pos + key_type64.vint_len,
                             Len(data) - pos - key_type64.vint_len).vint_len,
           Len(data)),
         pos)

ADLB_Unpack_container_hdr(data, pos) ==
  container_hdr_rest(data, pos, vint_decode(data, pos, Len(data) - pos))

\* ADLB_Unpack_multiset_hdr, from the two numbers decoded
multiset_hdr(elem_type64, entries64, pos) ==
  IF elem_type64.vint_len < 1 THEN [dc |-> "CRASH", pos |-> pos, entries |-> 0,
                                    elem_type |-> "NULL"]
  ELSE IF entries64.vint_len < 0 \/ entries64.val < 0
    THEN [dc |-> "INVALID", pos |-> pos, entries |-> 0, elem_type |-> "NULL"]
  ELSE [dc |-> "SUCCESS", pos |-> pos + elem_type64.vint_len + entries64.vint_len,
        entries |-> entries64.val, elem_type |-> CodeType(elem_type64.val)]

ADLB_Unpack_multiset_hdr(data, pos) ==
  IF vint_decode(data, pos, Len(data) - pos).vint_len < 1
    THEN multiset_hdr([vint_len |-> -1, val |-> 0], [vint_len |-> -1, val |-> 0], pos)
    ELSE multiset_hdr(vint_decode(data, pos, Len(data) - pos),
                      vint_decode(data, pos + vint_decode(data, pos, Len(data) - pos).vint_len,
                                  Len(data)),
                      pos)

\* a table of members without entries
NoMembers == [key \in {} |-> <<>>]

Failed(dc) == [dc |-> dc, d |-> <<>>]

RECURSIVE ADLB_Unpack(_, _)
RECURSIVE container_entries(_, _, _, _, _)
RECURSIVE multiset_entries(_, _, _, _, _)

\* one turn of the loop of ADLB_Unpack_container: key and val are the
\* outcomes of ADLB_Unpack_buffer for the key and for the value
container_entry(hdr, data, i, members, key, val) ==
  IF key.dc # "SUCCESS" THEN Failed(key.dc)
  ELSE IF val.dc # "SUCCESS" THEN Failed(val.dc)
  ELSE IF ADLB_Unpack(hdr.val_type, val.entry).dc # "SUCCESS"
    THEN Failed(ADLB_Unpack(hdr.val_type, val.entry).dc)
  ELSE container_entries(hdr, data, val.pos, i + 1,
         TableSet(members, key.entry, ADLB_Unpack(hdr.val_type, val.entry).d))

\* the loop of ADLB_Unpack_container from the i-th entry on
container_entries(hdr, data, pos, i, members) ==
  IF i >= hdr.entries
    THEN [dc |-> "SUCCESS", d |-> <<hdr.key_type, hdr.val_type, members>>]
    ELSE container_entry(hdr, data, i, members,
           ADLB_Unpack_buffer("NULL", data, pos),
           ADLB_Unpack_buffer(hdr.val_type, data,
                              ADLB_Unpack_buffer("NULL", data, pos).pos))

\* ADLB_Unpack_container of a container that is initialised by the call
ADLB_Unpack_container(data) ==
  IF ADLB_Unpack_container_hdr(data, 0).dc # "SUCCESS"
    THEN Failed(ADLB_Unpack_container_hdr(data, 0).dc)
    ELSE container_entries(ADLB_Unpack_container_hdr(data, 0), data,
                           ADLB_Unpack_container_hdr(data, 0).pos, 0, NoMembers)

\* one turn of the loop of ADLB_Unpack_multiset; xlb_multiset_add unpacks the
\* element and appends it
multiset_entry(hdr, data, i, elems, elem) ==
  IF elem.dc # "SUCCESS" THEN Failed(elem.dc)
  ELSE IF ADLB_Unpack(hdr.elem_type, elem.entry).dc # "SUCCESS"
    THEN Failed(ADLB_Unpack(hdr.elem_type, elem.entry).dc)
  ELSE multiset_entries(hdr, data, elem.pos, i + 1,
         Append(elems, ADLB_Unpack(hdr.elem_type, elem.entry).d))

\* the loop of ADLB_Unpack_multiset from the i-th entry on
multiset_entries(hdr, data, pos, i, elems) ==
  IF i >= hdr.entries THEN [dc |-> "SUCCESS", d |-> <<hdr.elem_type, elems>>]
  ELSE multiset_entry(hdr, data, i, elems, ADLB_Unpack_buffer(hdr.elem_type, data, pos))

\* ADLB_Unpack_multiset of a multiset that is allocated by the call
ADLB_Unpack_multiset(data) ==
  IF ADLB_Unpack_multiset_hdr(data, 0).dc # "SUCCESS"
    THEN Failed(ADLB_Unpack_multiset_hdr(data, 0).dc)
    ELSE multiset_entries(ADLB_Unpack_multiset_hdr(data, 0), data,
                          ADLB_Unpack_multiset_hdr(data, 0).pos, 0, <<>>)

\* ADLB_Unpack: the code and the storage
ADLB_Unpack(type, buffer) ==
  CASE type = "INTEGER" -> ADLB_Unpack_integer(buffer)
    [] type = "STRING" -> ADLB_Unpack_string(buffer)
    [] type = "CONTAINER" -> ADLB_Unpack_container(buffer)
    [] type = "MULTISET" -> ADLB_Unpack_multiset(buffer)
    [] OTHER -> Failed("INVALID")

\* a client packs the value without a length in front of it
PackValue ==
  /\ pack_buf = <<>>
  /\ pack_in[1] # "NULL"
  /\ pack_buf' = <<FALSE, ADLB_Pack(pack_in[2], pack_in[1])>>
  /\ UNCHANGED <<pack_in, unpacked>>
  /\ UNCHANGED nonPackVars

\* a client packs the value as an entry, its length in front of it, behind
\* the bytes of an earlier entry or at the start of the buffer
PackEntry ==
  /\ pack_buf = <<>>
  /\ pack_in[1] # "NULL"
  /\ \E output \in {<<>>, <<1, 7>>} :
       pack_buf' = <<TRUE, ADLB_Pack_buffer(pack_in[2], pack_in[1], TRUE, output), Len(output)>>
  /\ UNCHANGED <<pack_in, unpacked>>
  /\ UNCHANGED nonPackVars

\* the receiver unpacks the bytes as a value of the type
UnpackValue ==
  /\ pack_buf # <<>>
  /\ ~pack_buf[1]
  /\ unpacked = <<>>
  /\ unpacked' = <<ADLB_Unpack(pack_in[1], pack_buf[2])>>
  /\ UNCHANGED <<pack_in, pack_buf>>
  /\ UNCHANGED nonPackVars

\* the entry found by ADLB_Unpack_buffer, unpacked as a value of the type
unpack_entry(type, entry) ==
  IF entry.dc # "SUCCESS" THEN Failed(entry.dc) ELSE ADLB_Unpack(type, entry.entry)

\* the receiver takes the entry out of the buffer and unpacks it
UnpackEntry ==
  /\ pack_buf # <<>>
  /\ pack_buf[1]
  /\ unpacked = <<>>
  /\ unpacked' = <<unpack_entry(pack_in[1], ADLB_Unpack_buffer(pack_in[1], pack_buf[2], pack_buf[3]))>>
  /\ UNCHANGED <<pack_in, pack_buf>>
  /\ UNCHANGED nonPackVars

(***************************************************************************)
(* Ranks, work queue and request queue.  ADLB_Init lays out the ranks: the  *)
(* workers first, the servers after them (adlb.c).  Every server has a work *)
(* queue of work units and a request queue of parked workers (workqueue.h,  *)
(* requestqueue.h).                                                          *)
(***************************************************************************)
ADLB_RANK_ANY == -100
ADLB_RANK_NULL == -200

\* the size of the communicator and the number of servers given to ADLB_Init
xlb_comm_size == 10
xlb_servers == 2
xlb_workers == xlb_comm_size - xlb_servers

WorkerRanks == 0 .. (xlb_workers - 1)
ServerRanks == xlb_workers .. (xlb_comm_size - 1)

xlb_am_server(xlb_comm_rank) == xlb_comm_rank >= xlb_workers

xlb_is_server(rank) == rank > xlb_comm_size - xlb_servers

xlb_map_to_server(rank) ==
  IF xlb_is_server(rank) THEN rank ELSE (rank % xlb_servers) + xlb_workers

xlb_my_server(xlb_comm_rank) ==
  IF xlb_am_server(xlb_comm_rank) THEN ADLB_RANK_NULL ELSE xlb_map_to_server(xlb_comm_rank)

\* work types given to ADLB_Init; type 1 is the control type of notifications
WorkTypes == {0, 1}
CONTROL == 1

WorkUnit(id, type, putter, priority, answer, target, parallelism) ==
  [id |-> id, type |-> type, putter |-> putter, priority |-> priority,
   answer |-> answer, target |-> target, parallelism |-> parallelism]

\* the state of one server's queues together with the deliveries made
Q(work, parked, delivered) == [work |-> work, parked |-> parked, delivered |-> delivered]

RemoveAt(q, i) == SubSeq(q, 1, i - 1) \o SubSeq(q, i + 1, Len(q))

\* q without the elements at the indices I
RemoveAll(q, I) ==
  LET Kept[i \in 0 .. Len(q)] ==
        IF i = 0 THEN <<>>
        ELSE IF i \in I THEN Kept[i - 1] ELSE Append(Kept[i - 1], q[i])
  IN Kept[Len(q)]

\* a unit is handed to the ranks that run it; left are the ranks that stay
\* parked on the server at that moment
Delivery(wu, ranks, left) == [unit |-> wu, ranks |-> ranks, left |-> left]

workqueue_add(work, wu) == Append(work, wu)

\* the unit of the highest priority among the indices I, the oldest first
Best(work, I) ==
  CHOOSE i \in I : \A j \in I : \/ work[j].priority < work[i].priority
                                \/ work[j].priority = work[i].priority /\ i <= j

TargetedFor(work, target, type) ==
  {i \in 1 .. Len(work) : work[i].target = target /\ work[i].type = type}

Untargeted(work, type) ==
  {i \in 1 .. Len(work) : /\ work[i].target = ADLB_RANK_ANY
                          /\ work[i].type = type
                          /\ work[i].parallelism = 1}

\* index of the unit for rank target and the given type, 0 if there is none:
\* the units targeted at the rank first, then the untargeted ones
workqueue_get(work, target, type) ==
  IF TargetedFor(work, target, type) # {}
    THEN Best(work, TargetedFor(work, target, type))
    ELSE IF Untargeted(work, type) # {}
    THEN Best(work, Untargeted(work, type))
    ELSE 0

Request(rank, type) == [rank |-> rank, type |-> type]

requestqueue_add(parked, rank, type) == Append(parked, Request(rank, type))

OfType(parked, type) == {i \in 1 .. Len(parked) : parked[i].type = type}

Min(I) == CHOOSE i \in I : \A j \in I : i <= j

\* index of the parked request of rank target_rank if it asks for type, else 0
requestqueue_matches_target(parked, target_rank, type) ==
  IF \E i \in OfType(parked, type) : parked[i].rank = target_rank
    THEN CHOOSE i \in OfType(parked, type) : parked[i].rank = target_rank
    ELSE 0

\* index of the longest parked request for type, 0 if there is none
requestqueue_matches_type(parked, type) ==
  IF OfType(parked, type) # {} THEN Min(OfType(parked, type)) ELSE 0

\* a reservation that takes the parked workers that there are, up to the
\* parallelism, also when they are too few
requestqueue_parallel_workers_partial(parked, type, parallelism) ==
  {i \in OfType(parked, type) :
     Cardinality({j \in OfType(parked, type) : j < i}) < parallelism}

\* indices of the parallelism longest parked requests for type, or none at
\* all when fewer are parked
requestqueue_parallel_workers(parked, type, parallelism) ==
  IF Cardinality(OfType(parked, type)) >= parallelism
    THEN {i \in OfType(parked, type) :
            Cardinality({j \in OfType(parked, type) : j < i}) < parallelism}
    ELSE {}

RanksAt(parked, I) == {parked[i].rank : i \in I}

ParkedRanks(parked) == RanksAt(parked, 1 .. Len(parked))

\* parallel units of the queue whose gang can be formed now
Releasable(work, parked) ==
  {i \in 1 .. Len(work) :
     /\ work[i].parallelism > 1
     /\ requestqueue_parallel_workers(parked, work[i].type, work[i].parallelism) # {}}

release_parallel(work, parked, delivered, i) ==
  Q(RemoveAt(work, i),
    RemoveAll(parked, requestqueue_parallel_workers(parked, work[i].type,
                                                    work[i].parallelism)),
    delivered \cup
      {Delivery(work[i],
                RanksAt(parked, requestqueue_parallel_workers(parked, work[i].type,
                                                              work[i].parallelism)),
                RanksAt(parked, (1 .. Len(parked)) \
                          requestqueue_parallel_workers(parked, work[i].type,
                                                        work[i].parallelism)))})

\* workqueue_pop_parallel and the release of the unit to its gang
xlb_check_parallel_tasks(work, parked, delivered) ==
  IF Releasable(work, parked) # {}
    THEN release_parallel(work, parked, delivered, Best(work, Releasable(work, parked)))
    ELSE Q(work, parked, delivered)

\* a unit arrives at a server: it goes to a parked worker that it matches,
\* and into the work queue otherwise
put_matched(work, parked, delivered, wu, i) ==
  IF i # 0
    THEN Q(work, RemoveAt(parked, i),
           delivered \cup {Delivery(wu, {parked[i].rank}, ParkedRanks(RemoveAt(parked, i)))})
    ELSE Q(workqueue_add(work, wu), parked, delivered)

put(work, parked, delivered, wu) ==
  IF wu.parallelism > 1
    THEN xlb_check_parallel_tasks(workqueue_add(work, wu), parked, delivered)
    ELSE put_matched(work, parked, delivered, wu,
                     IF wu.target # ADLB_RANK_ANY
                       THEN requestqueue_matches_target(parked, wu.target, wu.type)
                       ELSE requestqueue_matches_type(parked, wu.type))

\* a worker asks for work: a unit of the queue, or the worker is parked
get_matched(work, parked, delivered, rank, type, i) ==
  IF i # 0
    THEN Q(RemoveAt(work, i), parked,
           delivered \cup {Delivery(work[i], {rank}, ParkedRanks(parked))})
    ELSE xlb_check_parallel_tasks(work, requestqueue_add(parked, rank, type), delivered)

handle_get(work, parked, delivered, rank, type) ==
  get_matched(work, parked, delivered, rank, type, workqueue_get(work, rank, type))

\* the queues of server sv become q
SetQueues(sv, q) ==
  /\ xlb_work' = [xlb_work EXCEPT ![sv] = q.work]
  /\ xlb_parked' = [xlb_parked EXCEPT ![sv] = q.parked]
  /\ work_delivered' = q.delivered

adlb_put_check_params(target, type, parallelism) ==
  /\ target = ADLB_RANK_ANY \/ (target >= 0 /\ target < xlb_workers)
  /\ type \in WorkTypes

\* a put that always goes to the server of the putter
adlb_put_my_server(xlb_comm_rank, target) == xlb_my_server(xlb_comm_rank)

\* the server that a put is sent to
adlb_put_target_server(xlb_comm_rank, target) ==
  IF target = ADLB_RANK_ANY
    THEN xlb_my_server(xlb_comm_rank)
    ELSE xlb_map_to_server(target)

handle_put(to_server, wu) ==
  SetQueues(to_server, put(xlb_work[to_server], xlb_parked[to_server], work_delivered, wu))

IsParked(rank) == \E sv \in ServerRanks : \E i \in 1 .. Len(xlb_parked[sv]) :
                    xlb_parked[sv][i].rank = rank

ADLBP_Put(xlb_comm_rank, target, answer, type, priority, parallelism) ==
  /\ wu_next <= MaxUnits
  /\ ~IsParked(xlb_comm_rank)
  /\ adlb_put_check_params(target, type, parallelism)
  /\ handle_put(adlb_put_target_server(xlb_comm_rank, target),
                WorkUnit(wu_next, type, xlb_comm_rank, priority, answer, target,
                         parallelism))
  /\ wu_next' = wu_next + 1
  /\ UNCHANGED <<steal_in_flight, lastNotify>>
  /\ UNCHANGED nonWorkVars

ADLBP_Get(xlb_comm_rank, type_requested) ==
  /\ ~IsParked(xlb_comm_rank)
  /\ type_requested \in WorkTypes
  /\ SetQueues(xlb_my_server(xlb_comm_rank),
               handle_get(xlb_work[xlb_my_server(xlb_comm_rank)],
                          xlb_parked[xlb_my_server(xlb_comm_rank)],
                          work_delivered, xlb_comm_rank, type_requested))
  /\ UNCHANGED <<wu_next, steal_in_flight, lastNotify>>
  /\ UNCHANGED nonWorkVars

\* the steal protocol, at the victim: units of the by-type index are taken
\* out of the queue and sent to the thief
Stealable(work) == {i \in 1 .. Len(work) : /\ work[i].target = ADLB_RANK_ANY
                                           /\ work[i].parallelism = 1}

\* a steal that sends the units and keeps them in the queue of the victim
workqueue_steal_keep(work, I) == work

workqueue_steal(work, I) == RemoveAll(work, I)

StolenUnits(work, I) == RemoveAll(work, (1 .. Len(work)) \ I)

handle_steal(thief, victim) ==
  /\ thief # victim
  /\ steal_in_flight = <<>>
  /\ xlb_work[thief] = <<>>
  /\ xlb_parked[thief] # <<>>
  /\ \E I \in (SUBSET Stealable(xlb_work[victim])) \ {{}} :
       /\ Cardinality(I) <= StealBudget
       /\ xlb_work' = [xlb_work EXCEPT ![victim] = workqueue_steal(@, I)]
       /\ steal_in_flight' = <<thief, StolenUnits(xlb_work[victim], I)>>
  /\ UNCHANGED <<xlb_parked, work_delivered, wu_next, lastNotify>>
  /\ UNCHANGED nonWorkVars

putq(q, wu) == put(q.work, q.parked, q.delivered, wu)

RECURSIVE put_all(_, _)
put_all(q, units) ==
  IF units = <<>> THEN q ELSE put_all(putq(q, Head(units)), Tail(units))

\* the steal protocol, at the thief: the stolen units are put on its side
steal_arrives ==
  /\ steal_in_flight # <<>>
  /\ SetQueues(steal_in_flight[1],
               put_all(Q(xlb_work[steal_in_flight[1]], xlb_parked[steal_in_flight[1]],
                         work_delivered),
                       steal_in_flight[2]))
  /\ steal_in_flight' = <<>>
  /\ UNCHANGED <<wu_next, lastNotify>>
  /\ UNCHANGED nonWorkVars

\* every rank hands units on to the server of the target; sv handles the put
notify_put(st, sv, q, entry) ==
  [work |-> [st.work EXCEPT ![sv] = q.work],
   parked |-> [st.parked EXCEPT ![sv] = q.parked],
   delivered |-> q.delivered,
   log |-> Append(st.log, entry),
   next |-> st.next + 1]

\* how one notification was submitted: the unit, whether it was added on the
\* notifying server itself, the server synced with and the server put to
NotifyEntry(wu, local, synced, put_to) ==
  [unit |-> wu, local |-> local, synced |-> synced, put_to |-> put_to]

\* xlb_put_targeted_local on the notifying server
notify_local(st, xlb_comm_rank, target) ==
  notify_put(st, xlb_comm_rank,
             put(st.work[xlb_comm_rank], st.parked[xlb_comm_rank], st.delivered,
                 WorkUnit(st.next, CONTROL, xlb_comm_rank, 1, -1, target, 1)),
             NotifyEntry(WorkUnit(st.next, CONTROL, xlb_comm_rank, 1, -1, target, 1),
                         TRUE, ADLB_RANK_NULL, xlb_comm_rank))

\* a notification that is put to the other server without a sync
notify_nonlocal_task_nosync(st, xlb_comm_rank, target, server) ==
  notify_put(st, adlb_put_target_server(xlb_comm_rank, target),
             put(st.work[adlb_put_target_server(xlb_comm_rank, target)],
                 st.parked[adlb_put_target_server(xlb_comm_rank, target)],
                 st.delivered,
                 WorkUnit(st.next, CONTROL, xlb_comm_rank, 1, -1, target, 1)),
             NotifyEntry(WorkUnit(st.next, CONTROL, xlb_comm_rank, 1, -1, target, 1),
                         FALSE, ADLB_RANK_NULL,
                         adlb_put_target_server(xlb_comm_rank, target)))

\* notify_nonlocal: on a server the sync with the given server, then ADLB_Put
notify_nonlocal_task(st, xlb_comm_rank, target, server) ==
  notify_put(st, adlb_put_target_server(xlb_comm_rank, target),
             put(st.work[adlb_put_target_server(xlb_comm_rank, target)],
                 st.parked[adlb_put_target_server(xlb_comm_rank, target)],
                 st.delivered,
                 WorkUnit(st.next, CONTROL, xlb_comm_rank, 1, -1, target, 1)),
             NotifyEntry(WorkUnit(st.next, CONTROL, xlb_comm_rank, 1, -1, target, 1),
                         FALSE,
                         IF xlb_am_server(xlb_comm_rank) THEN server ELSE ADLB_RANK_NULL,
                         adlb_put_target_server(xlb_comm_rank, target)))

notify_one(st, xlb_comm_rank, target, server) ==
  IF xlb_am_server(xlb_comm_rank) /\ server = xlb_comm_rank
    THEN notify_local(st, xlb_comm_rank, target)
    ELSE notify_nonlocal_task(st, xlb_comm_rank, target, server)

RECURSIVE close_notify_loop(_, _, _)
close_notify_loop(st, xlb_comm_rank, ranks) ==
  IF ranks = <<>>
    THEN st
    ELSE close_notify_loop(notify_one(st, xlb_comm_rank, Head(ranks),
                                      xlb_map_to_server(Head(ranks))),
                           xlb_comm_rank, Tail(ranks))

xlb_close_notify_done(xlb_comm_rank, ranks, st) ==
  /\ xlb_work' = st.work
  /\ xlb_parked' = st.parked
  /\ work_delivered' = st.delivered
  /\ wu_next' = st.next
  /\ lastNotify' = [self |-> xlb_comm_rank, ranks |-> ranks, log |-> st.log]

\* xlb_close_notify on rank xlb_comm_rank for the subscribed ranks
xlb_close_notify(xlb_comm_rank, ranks) ==
  /\ wu_next + Len(ranks) - 1 <= MaxUnits
  /\ xlb_close_notify_done(xlb_comm_rank, ranks,
       close_notify_loop([work |-> xlb_work, parked |-> xlb_parked,
                          delivered |-> work_delivered, log |-> <<>>, next |-> wu_next],
                         xlb_comm_rank, ranks))
  /\ UNCHANGED steal_in_flight
  /\ UNCHANGED nonWorkVars

(***************************************************************************)
(* Datum ids: the server that owns an id (ADLB_Locate, adlb.c) and the ids  *)
(* that a server mints (data_init, data_unique, data.c).                    *)
(***************************************************************************)
ADLB_DATA_ID_NULL == 0

LONG_MAX == 2 ^ (LongBits - 1) - 1

\* a value of type long after an addition
WrapLong(x) == ((x + 2 ^ (LongBits - 1)) % (2 ^ LongBits)) - 2 ^ (LongBits - 1)

\* the remainder of C, which has the sign of the dividend
CRem(a, b) == IF a >= 0 THEN a % b ELSE -((-a) % b)

\* ADLB_Locate that counts the ids of the first server from 1
ADLB_Locate_from_one(id) == xlb_comm_size - xlb_servers + ((id - 1) % xlb_servers)

\* a locate without the correction of a negative remainder
ADLB_Locate_trunc(id) == xlb_comm_size - xlb_servers + CRem(id, xlb_servers)

ADLB_Locate(id) ==
  xlb_comm_size - xlb_servers +
    (IF CRem(id, xlb_servers) < 0
       THEN CRem(id, xlb_servers) + xlb_servers
       ELSE CRem(id, xlb_servers))

\* the clients that call ADLB_Unique
UniqueClients == {0, 1}

\* numbers of the servers amongst the servers
ServerNums == 0 .. (xlb_servers - 1)

\* a counter that starts at the number of the server, also for server 0
data_init_zero(s, server_num) == server_num

\* data_init: the first id that the server with number server_num mints
data_init(s, server_num) == IF server_num = 0 THEN server_num + s ELSE server_num

last_id == LONG_MAX - xlb_servers - 1

UniqueResult(dc, result, next) == [dc |-> dc, result |-> result, unique |-> next]

data_unique(u) ==
  IF u >= last_id
    THEN UniqueResult("ADLB_DATA_ERROR_LIMIT", ADLB_DATA_ID_NULL, u)
    ELSE UniqueResult("ADLB_DATA_SUCCESS", u, WrapLong(u + xlb_servers))

\* rank of the server that the next ADLB_Unique of a client goes to
get_next_server(index) == xlb_comm_size - xlb_servers + (index % xlb_servers)

\* the return code of ADLBP_Unique: the test is on result, the address that
\* the id was received into, not on the id
ADLBP_Unique_code(result, id) ==
  IF result = ADLB_DATA_ID_NULL THEN "ADLB_ERROR" ELSE "ADLB_SUCCESS"

ADLBP_Unique_done(client, result, server_num, r) ==
  /\ unique' = [unique EXCEPT ![server_num] = r.unique]
  /\ minted' = [minted EXCEPT ![server_num] =
                  IF r.dc = "ADLB_DATA_SUCCESS" THEN Append(@, r.result) ELSE @]
  /\ next_server_index' =
       [next_server_index EXCEPT ![client] = (@ + 1) % xlb_servers]
  /\ lastUnique' = [client |-> client, server_num |-> server_num, dc |-> r.dc,
                    id |-> r.result, code |-> ADLBP_Unique_code(result, r.result)]

\* ADLB_Unique of a client, with the server's data_unique
ADLBP_Unique(client, result) ==
  /\ ADLBP_Unique_done(client, result,
       get_next_server(next_server_index[client]) - xlb_workers,
       data_unique(unique[get_next_server(next_server_index[client]) - xlb_workers]))
  /\ UNCHANGED <<locate_id, locate_rank>>
  /\ UNCHANGED nonIdVars

(***************************************************************************)
(* The checkpoint file (xpt_file.c).  The file is a sequence of bytes cut   *)
(* into blocks of XLB_XPT_BLOCK_SIZE bytes; block b belongs to rank         *)
(* b % xlb_comm_size.  The state of a writer is the record                  *)
(*   [fd, buffer, buffer_used, curr_block, curr_block_pos, file]            *)
(* where file holds the bytes behind fd, and fd is "open", "closed",        *)
(* "killed" (a copy ran out of the buffer and the process died) or "hung"   *)
(* (a call never returned).                                                  *)
(***************************************************************************)
\* the sizes of a block and of the write buffer, scaled down
XLB_XPT_BLOCK_SIZE == 32
XLB_XPT_BUFFER_SIZE == 24

\* how many records the writer is given
MaxRecords == 3

\* the size the reader asks for its buffer, scaled down
ReadBufferLength == 3

xpt_magic_num == 66
xpt_sync_marker == 1595673459
Uint32Bytes == 4

Lesser(a, b) == IF a < b THEN a ELSE b

\* crc32 of zlib, reduced to a running sum of 24 bits: it starts at 0
\* and is carried from one run of bytes to the next
RECURSIVE crc32(_, _)
crc32(crc, buf) ==
  IF buf = <<>> THEN crc
  ELSE crc32((crc * 31 + Head(buf) + 1) % 16777216, Tail(buf))

\* the four bytes of bufwrite_uint32, the most significant first
uint32_bytes(val) ==
  <<(val \div 16777216) % 256, (val \div 65536) % 256, (val \div 256) % 256, val % 256>>

first_block(rank, ranks) == rank

next_block(ranks, curr) == curr + ranks

block_move(block, state) ==
  [state EXCEPT !.curr_block = block, !.curr_block_pos = 0]

block_move_next(state) == block_move(next_block(xlb_comm_size, state.curr_block), state)

\* pwrite: the bytes go to the offset; a gap before them reads as zeros
pwrite(file, buf, offset) ==
  [i \in 1 .. (IF Len(file) > offset + Len(buf) THEN Len(file) ELSE offset + Len(buf)) |->
     IF i > offset /\ i <= offset + Len(buf) THEN buf[i - offset]
     ELSE IF i <= Len(file) THEN file[i]
     ELSE 0]

\* one round of the loop of flush_buffers, write_size bytes of it
flush_buffers_write(state, buf_pos, write_size, block_left) ==
  IF write_size = block_left
    THEN block_move_next(
           [state EXCEPT !.file = pwrite(state.file, SubBuf(state.buffer, buf_pos, write_size),
                                         state.curr_block * XLB_XPT_BLOCK_SIZE
                                           + state.curr_block_pos)])
  ELSE [state EXCEPT !.file = pwrite(state.file, SubBuf(state.buffer, buf_pos, write_size),
                                     state.curr_block * XLB_XPT_BLOCK_SIZE
                                       + state.curr_block_pos),
                     !.curr_block_pos = state.curr_block_pos + write_size]

RECURSIVE flush_buffers_loop(_, _, _)
flush_buffers_loop(state, buf_pos, buf_left) ==
  IF buf_left = 0 THEN [state EXCEPT !.buffer_used = 0]
  ELSE flush_buffers_loop(
         flush_buffers_write(state, buf_pos,
                             Lesser(XLB_XPT_BLOCK_SIZE - state.curr_block_pos, buf_left),
                             XLB_XPT_BLOCK_SIZE - state.curr_block_pos),
         buf_pos + Lesser(XLB_XPT_BLOCK_SIZE - state.curr_block_pos, buf_left),
         buf_left - Lesser(XLB_XPT_BLOCK_SIZE - state.curr_block_pos, buf_left))

\* flush_buffers: the first buffer_used bytes of the buffer go to the file
flush_buffers(state) == flush_buffers_loop(state, 0, state.buffer_used)

\* memcpy into the buffer at offset pos
memcpy(buffer, pos, data) ==
  [i \in 1 .. Len(buffer) |->
     IF i > pos /\ i <= pos + Len(data) THEN data[i - pos] ELSE buffer[i]]

\* bufwrite counts the bytes it copied and appends the magic number of the
\* next block
bufwrite_count(state, write_size, append_magic_num) ==
  IF append_magic_num
    THEN [state EXCEPT !.buffer = memcpy(state.buffer, state.buffer_used + write_size,
                                         <<xpt_magic_num>>),
                       !.buffer_used = state.buffer_used + write_size + 1]
  ELSE [state EXCEPT !.buffer_used = state.buffer_used + write_size]

RECURSIVE bufwrite_loop(_, _)

\* one round of the loop of bufwrite that copies write_size bytes.  A
\* write_size below zero is a huge size_t: the copy leaves the buffer and
\* the process dies in it.  After a copy that fills the buffer the buffer is
\* flushed with buffer_used as it was before the copy.
bufwrite_copy(state, data, buffer_left, write_size, append_magic_num) ==
  IF write_size < 0 THEN [state EXCEPT !.fd = "killed"]
  ELSE IF write_size = buffer_left
    THEN bufwrite_loop(
           flush_buffers([state EXCEPT !.buffer = memcpy(state.buffer, state.buffer_used,
                                                         SubSeq(data, 1, write_size))]),
           SubSeq(data, write_size + 1, Len(data)))
  ELSE bufwrite_loop(
         bufwrite_count([state EXCEPT !.buffer = memcpy(state.buffer, state.buffer_used,
                                                        SubSeq(data, 1, write_size))],
                        write_size, append_magic_num),
         SubSeq(data, write_size + 1, Len(data)))

\* the rest of the block is copied when the bytes would cross its end
bufwrite_round(state, data, buffer_left, write_size) ==
  IF state.curr_block_pos + state.buffer_used + write_size > XLB_XPT_BLOCK_SIZE
    THEN bufwrite_copy(state, data, buffer_left,
                       XLB_XPT_BLOCK_SIZE - state.curr_block_pos - state.buffer_used, TRUE)
  ELSE bufwrite_copy(state, data, buffer_left, write_size, FALSE)

bufwrite_loop(state, data) ==
  IF Len(data) = 0 \/ state.fd # "open" THEN state
  ELSE IF XLB_XPT_BUFFER_SIZE - state.buffer_used = 0
    THEN bufwrite_loop(flush_buffers(state), data)
  ELSE bufwrite_round(state, data, XLB_XPT_BUFFER_SIZE - state.buffer_used,
                      Lesser(XLB_XPT_BUFFER_SIZE - state.buffer_used, Len(data)))

\* bufwrite: at the start of a block with an empty buffer the magic number
\* goes first
bufwrite(state, data) ==
  IF state.fd # "open" THEN state
  ELSE IF state.curr_block_pos = 0 /\ state.buffer_used = 0
    THEN bufwrite_loop([state EXCEPT !.buffer = memcpy(state.buffer, 0, <<xpt_magic_num>>),
                                     !.buffer_used = 1],
                       data)
  ELSE bufwrite_loop(state, data)

bufwrite_uint32(state, val) == bufwrite(state, uint32_bytes(val))

xlb_xpt_flush(state) == IF state.fd # "open" THEN state ELSE flush_buffers(state)

\* file_pos_add: the position add bytes on.  It never leaves the block, and
\* it does not return when the block ends before the bytes do
RECURSIVE file_pos_add(_, _)
file_pos_add(pos, add) ==
  IF add = 0 THEN pos
  ELSE IF XLB_XPT_BLOCK_SIZE - pos.block_pos = 0 THEN [pos EXCEPT !.returns = FALSE]
  ELSE file_pos_add(
         [pos EXCEPT !.block_pos = pos.block_pos
                                     + Lesser(XLB_XPT_BLOCK_SIZE - pos.block_pos, add)],
         add - Lesser(XLB_XPT_BLOCK_SIZE - pos.block_pos, add))

xpt_file_pos(block, block_pos) == [block |-> block, block_pos |-> block_pos, returns |-> TRUE]

\* xpt_get_file_pos with after_buffered set
xpt_get_file_pos(state) ==
  file_pos_add(xpt_file_pos(state.curr_block, state.curr_block_pos), state.buffer_used)

xpt_header_write(state) ==
  xlb_xpt_flush(bufwrite_uint32(bufwrite_uint32(state, XLB_XPT_BLOCK_SIZE), xlb_comm_size))

\* xlb_xpt_init of a rank on the file: rank 0 writes the header
xlb_xpt_init(rank, file) ==
  IF rank = 0
    THEN xpt_header_write(
           block_move(first_block(rank, xlb_comm_size),
                      [fd |-> "open", buffer |-> Zeros(XLB_XPT_BUFFER_SIZE), buffer_used |-> 0,
                       curr_block |-> 0, curr_block_pos |-> 0, file |-> file]))
  ELSE block_move(first_block(rank, xlb_comm_size),
                  [fd |-> "open", buffer |-> Zeros(XLB_XPT_BUFFER_SIZE), buffer_used |-> 0,
                   curr_block |-> 0, curr_block_pos |-> 0, file |-> file])

\* the bytes that the checksum of a record covers
record_bytes(rec_len, key, val) ==
  IF rec_len = 0 THEN vint_encode(0)
  ELSE vint_encode(rec_len) \o vint_encode(Len(key)) \o key \o val

\* write_entry, called without a place for the offset of the value
write_entry(state, rec_len, key, val) ==
  IF rec_len = 0
    THEN bufwrite(bufwrite_uint32(bufwrite_uint32(state, xpt_sync_marker),
                                  crc32(0, record_bytes(rec_len, key, val))),
                  vint_encode(rec_len))
  ELSE bufwrite(bufwrite(bufwrite(bufwrite(
         bufwrite_uint32(bufwrite_uint32(state, xpt_sync_marker),
                         crc32(0, record_bytes(rec_len, key, val))),
         vint_encode(rec_len)), vint_encode(Len(key))), key), val)

xlb_xpt_write(state, key, val) ==
  write_entry(state, Len(vint_encode(Len(key))) + Len(key) + Len(val), key, val)

EOF_REC_BYTES == 2 * Uint32Bytes + Len(vint_encode(0))

\* xlb_xpt_close: the zero-length record is written in the middle of a
\* block that has room for it
xlb_xpt_close_at(state, pos) ==
  IF ~pos.returns THEN [state EXCEPT !.fd = "hung"]
  ELSE IF pos.block_pos > 0 /\ XLB_XPT_BLOCK_SIZE - pos.block_pos >= EOF_REC_BYTES
    THEN [xlb_xpt_flush(write_entry(state, 0, <<>>, <<>>)) EXCEPT
            !.fd = IF @ = "open" THEN "closed" ELSE @]
  ELSE [xlb_xpt_flush(state) EXCEPT !.fd = "closed"]

xlb_xpt_close(state) == xlb_xpt_close_at(state, xpt_get_file_pos(state))

(***************************************************************************)
(* Reading the checkpoint file.  The state of a reader is the record        *)
(*   [curr_block, curr_block_pos, block_size, ranks, offset, file]          *)
(* where offset is the position of the stream in the file.  A read returns  *)
(* a record with its code rc, the state after it and what it read.          *)
(***************************************************************************)
EOF == -1

parse_uint32(buf) == buf[1] * 16777216 + buf[2] * 65536 + buf[3] * 256 + buf[4]

\* fgetc: the byte at the position of the stream, EOF at the end of the file
fgetc(state) == IF state.offset < Len(state.file) THEN state.file[state.offset + 1] ELSE EOF

\* the stream after a read of length bytes
stream_read(state, length) ==
  IF state.offset + length <= Len(state.file) THEN state.offset + length
  ELSE IF state.offset < Len(state.file) THEN Len(state.file)
  ELSE state.offset

\* checked_fread: the position in the block moves by length whatever was read
checked_fread(state, length) ==
  [rc |-> IF state.offset + length <= Len(state.file) THEN "ADLB_SUCCESS" ELSE "ADLB_DONE",
   state |-> [state EXCEPT !.curr_block_pos = state.curr_block_pos + length,
                           !.offset = stream_read(state, length)],
   data |-> SubSeq(state.file, state.offset + 1, stream_read(state, length))]

checked_fread_uint32(state) == checked_fread(state, Uint32Bytes)

\* the second half of xpt_header_read
xpt_header_ranks(block_size, rd) ==
  IF rd.rc # "ADLB_SUCCESS" THEN [rc |-> "ADLB_ERROR", state |-> rd.state]
  ELSE IF block_size <= 0 \/ parse_uint32(rd.data) <= 0
    THEN [rc |-> "ADLB_ERROR", state |-> rd.state]
  ELSE [rc |-> "ADLB_SUCCESS",
        state |-> [rd.state EXCEPT !.block_size = block_size,
                                   !.ranks = parse_uint32(rd.data)]]

xpt_header_block_size(rd) ==
  IF rd.rc # "ADLB_SUCCESS" THEN [rc |-> "ADLB_ERROR", state |-> rd.state]
  ELSE xpt_header_ranks(parse_uint32(rd.data), checked_fread_uint32(rd.state))

xpt_header_read(state) == xpt_header_block_size(checked_fread_uint32(state))

\* xlb_xpt_open_read
xlb_xpt_open_read(file) ==
  IF Len(file) = 0 \/ file[1] # xpt_magic_num
    THEN [rc |-> "ADLB_ERROR",
          state |-> [curr_block |-> 0, curr_block_pos |-> 0, block_size |-> 0, ranks |-> 0,
                     offset |-> 0, file |-> file]]
  ELSE xpt_header_read([curr_block |-> 0, curr_block_pos |-> 1, block_size |-> 0,
                        ranks |-> 0, offset |-> 1, file |-> file])

\* block_read_move once the stream is at the start of the block
block_read_magic(state, magic_num) ==
  IF magic_num = EOF
    THEN [rc |-> "ADLB_DONE", state |-> [state EXCEPT !.curr_block_pos = 1]]
  ELSE IF magic_num = 0
    THEN [rc |-> "ADLB_DONE",
          state |-> [state EXCEPT !.curr_block_pos = 1, !.offset = state.offset + 1]]
  ELSE IF magic_num # xpt_magic_num
    THEN [rc |-> "ADLB_ERROR",
          state |-> [state EXCEPT !.curr_block_pos = 1, !.offset = state.offset + 1]]
  ELSE IF state.curr_block = 0
    THEN xpt_header_read([state EXCEPT !.curr_block_pos = 1, !.offset = state.offset + 1])
  ELSE [rc |-> "ADLB_SUCCESS",
        state |-> [state EXCEPT !.curr_block_pos = 1, !.offset = state.offset + 1]]

block_read_move(state, new_block) ==
  block_read_magic([state EXCEPT !.curr_block = new_block, !.curr_block_pos = 0,
                                 !.offset = new_block * state.block_size],
                   fgetc([state EXCEPT !.offset = new_block * state.block_size]))

block_read_advance(state) ==
  block_read_move(state, next_block(state.ranks, state.curr_block))

xlb_xpt_read_select(state, rank) ==
  IF ~(rank >= 0 /\ rank < state.ranks) THEN [rc |-> "ADLB_ERROR", state |-> state]
  ELSE block_read_move(state, first_block(rank, state.ranks))

RECURSIVE blkread_loop(_, _, _)

\* one read of blkread inside the block
blkread_block(state, length, data, block_left) ==
  IF checked_fread(state, Lesser(block_left, length)).rc # "ADLB_SUCCESS"
    THEN [rc |-> checked_fread(state, Lesser(block_left, length)).rc,
          state |-> checked_fread(state, Lesser(block_left, length)).state,
          data |-> data]
  ELSE blkread_loop(checked_fread(state, Lesser(block_left, length)).state,
                    length - Lesser(block_left, length),
                    data \o checked_fread(state, Lesser(block_left, length)).data)

blkread_advanced(rd, length, data) ==
  IF rd.rc # "ADLB_SUCCESS" THEN [rc |-> rd.rc, state |-> rd.state, data |-> data]
  ELSE blkread_block(rd.state, length, data, rd.state.block_size - rd.state.curr_block_pos)

blkread_loop(state, length, data) ==
  IF length <= 0 THEN [rc |-> "ADLB_SUCCESS", state |-> state, data |-> data]
  ELSE IF state.block_size - state.curr_block_pos <= 0
    THEN blkread_advanced(block_read_advance(state), length, data)
  ELSE blkread_block(state, length, data, state.block_size - state.curr_block_pos)

\* blkread: length bytes, from the blocks of the rank one after the other
blkread(state, length) == blkread_loop(state, length, <<>>)

blkread_uint32(state) == blkread(state, Uint32Bytes)

blkgetc_here(state) ==
  IF fgetc(state) = EOF THEN [rc |-> "ADLB_DONE", state |-> state, data |-> <<>>]
  ELSE [rc |-> "ADLB_SUCCESS",
        state |-> [state EXCEPT !.curr_block_pos = state.curr_block_pos + 1,
                                !.offset = state.offset + 1],
        data |-> <<fgetc(state)>>]

blkgetc_advanced(rd) ==
  IF rd.rc # "ADLB_SUCCESS" THEN [rc |-> rd.rc, state |-> rd.state, data |-> <<>>]
  ELSE blkgetc_here(rd.state)

blkgetc(state) ==
  IF state.curr_block_pos >= state.block_size THEN blkgetc_advanced(block_read_advance(state))
  ELSE blkgetc_here(state)

RECURSIVE blkread_vint_more(_, _)

\* blkread_vint after a byte was read: a byte with its top bit set is
\* followed by another one
blkread_vint_byte(rd, encoded) ==
  IF rd.rc # "ADLB_SUCCESS"
    THEN [rc |-> rd.rc, state |-> rd.state, data |-> 0, consumed |-> -1, encoded |-> encoded]
  ELSE IF rd.data[1] >= 128 /\ Len(encoded) + 1 >= VINT_MAX_BYTES
    THEN [rc |-> "ADLB_ERROR", state |-> rd.state, data |-> 0,
          consumed |-> Len(encoded) + 1, encoded |-> encoded \o rd.data]
  ELSE IF rd.data[1] >= 128 THEN blkread_vint_more(rd.state, encoded \o rd.data)
  ELSE [rc |-> "ADLB_SUCCESS", state |-> rd.state,
        data |-> vint_decode(encoded \o rd.data, 0, Len(encoded) + 1).val,
        consumed |-> Len(encoded) + 1, encoded |-> encoded \o rd.data]

blkread_vint_more(state, encoded) == blkread_vint_byte(blkgetc(state), encoded)

blkread_vint(state) == blkread_vint_more(state, <<>>)

xpt_read_pos(state) == xpt_file_pos(state.curr_block, state.curr_block_pos)

seek_file_pos_block(rd, pos) ==
  IF rd.rc # "ADLB_SUCCESS" THEN rd
  ELSE [rc |-> "ADLB_SUCCESS",
        state |-> [rd.state EXCEPT !.offset = pos.block * rd.state.block_size + pos.block_pos,
                                   !.curr_block_pos = pos.block_pos]]

seek_file_pos(state, pos) ==
  IF pos.block # state.curr_block
    THEN seek_file_pos_block(block_read_move(state, pos.block), pos)
  ELSE seek_file_pos_block([rc |-> "ADLB_SUCCESS", state |-> state], pos)

RECURSIVE xpt_read_resync_loop(_, _)

xpt_read_resync_next(rd, curr) ==
  IF rd.rc # "ADLB_SUCCESS" THEN rd.state
  ELSE xpt_read_resync_loop(rd.state, Tail(curr) \o rd.data)

\* the loop of xpt_read_resync; curr is kept as its four bytes
xpt_read_resync_loop(state, curr) ==
  IF curr = uint32_bytes(xpt_sync_marker) THEN state
  ELSE xpt_read_resync_next(blkread(state, 1), curr)

xpt_read_resync_first(rd) ==
  IF rd.rc # "ADLB_SUCCESS" THEN rd.state
  ELSE xpt_read_resync_loop(rd.state, rd.data)

xpt_read_resync_seeked(rd) ==
  IF rd.rc # "ADLB_SUCCESS" THEN rd.state
  ELSE xpt_read_resync_first(blkread_uint32(rd.state))

\* xpt_read_resync: the state of the reader after it
xpt_read_resync(state, resync_point) ==
  xpt_read_resync_seeked(seek_file_pos(state, resync_point))

RECURSIVE check_crc_loop(_, _, _, _, _, _)

check_crc_read(rd, read, rec_len, crc_calc, crc, length) ==
  IF rd.rc # "ADLB_SUCCESS" THEN [ok |-> FALSE, state |-> rd.state, returns |-> TRUE]
  ELSE check_crc_loop(rd.state, read, rec_len, crc32(crc_calc, rd.data), crc, length)

\* the loop of check_crc: it reads until read reaches rec_len, and read
\* stays what it was.  With nothing to read at a time it goes on for ever
check_crc_loop(state, read, rec_len, crc_calc, crc, length) ==
  IF read < rec_len
    THEN IF Lesser(length, rec_len - read) = 0
           THEN [ok |-> FALSE, state |-> state, returns |-> FALSE]
         ELSE check_crc_read(blkread(state, Lesser(length, rec_len - read)),
                             read, rec_len, crc_calc, crc, length)
  ELSE [ok |-> uint32_bytes(crc_calc) = crc, state |-> state, returns |-> TRUE]

\* check_crc with a buffer of length bytes
check_crc(state, rec_len, crc, length) == check_crc_loop(state, 0, rec_len, 0, crc, length)

\* what xlb_xpt_read returns.  In it the checksum read from the file is
\* kept as its four bytes
ReadResult(rc, state, key_len, key, val) ==
  [rc |-> rc, state |-> state, key_len |-> key_len, key |-> key, val |-> val]

\* xlb_xpt_read once the bytes of the record are in the buffer
xlb_xpt_read_parse(state, resync_pos, rec_len64, data, key_len) ==
  IF key_len.vint_len < 0 \/ key_len.val < 0 \/ key_len.val > rec_len64 - key_len.vint_len
    THEN ReadResult("ADLB_NOTHING", xpt_read_resync(state, resync_pos), 0, <<>>, <<>>)
  ELSE ReadResult("ADLB_SUCCESS", state, key_len.val,
                  SubBuf(data, key_len.vint_len, key_len.val),
                  SubBuf(data, key_len.vint_len + key_len.val,
                         rec_len64 - key_len.vint_len - key_len.val))

xlb_xpt_read_data(rd, resync_pos, crc, rec_len64, rec_len_enc) ==
  IF rd.rc # "ADLB_SUCCESS" THEN ReadResult(rd.rc, rd.state, 0, <<>>, <<>>)
  ELSE IF uint32_bytes(crc32(crc32(0, rec_len_enc), rd.data)) # crc
    THEN ReadResult("ADLB_NOTHING", xpt_read_resync(rd.state, resync_pos), 0, <<>>, <<>>)
  ELSE xlb_xpt_read_parse(rd.state, resync_pos, rec_len64, rd.data,
                          vint_decode(rd.data, 0, rec_len64))

\* the buffer is too small: the checksum is checked from the file, and the
\* caller is told the length to come back with
xlb_xpt_read_retry(checked, record_start, resync_pos, rec_len64) ==
  IF ~checked.returns THEN ReadResult("hung", checked.state, 0, <<>>, <<>>)
  ELSE IF ~checked.ok
    THEN ReadResult("ADLB_NOTHING", xpt_read_resync(checked.state, resync_pos), 0, <<>>, <<>>)
  ELSE ReadResult("ADLB_RETRY", seek_file_pos(checked.state, record_start).state,
                  rec_len64, <<>>, <<>>)

xlb_xpt_read_rec_len(rd, record_start, resync_pos, crc, length) ==
  IF rd.rc # "ADLB_SUCCESS"
    THEN IF rd.consumed > 0
           THEN ReadResult("ADLB_NOTHING", xpt_read_resync(rd.state, resync_pos), 0, <<>>, <<>>)
         ELSE ReadResult("ADLB_ERROR", rd.state, 0, <<>>, <<>>)
  ELSE IF rd.data < 0
    THEN ReadResult("ADLB_NOTHING", xpt_read_resync(rd.state, resync_pos), 0, <<>>, <<>>)
  ELSE IF rd.data = 0
    THEN IF uint32_bytes(crc32(0, vint_encode(rd.data))) # crc
           THEN ReadResult("ADLB_NOTHING", xpt_read_resync(rd.state, resync_pos), 0, <<>>, <<>>)
         ELSE ReadResult("ADLB_DONE", rd.state, 0, <<>>, <<>>)
  ELSE IF length < rd.data
    THEN xlb_xpt_read_retry(check_crc(rd.state, rd.data, crc, length),
                            record_start, resync_pos, rd.data)
  ELSE xlb_xpt_read_data(blkread(rd.state, rd.data), resync_pos, crc, rd.data,
                         vint_encode(rd.data))

xlb_xpt_read_crc(rd, record_start, resync_pos, length) ==
  IF rd.rc # "ADLB_SUCCESS" THEN ReadResult(rd.rc, rd.state, 0, <<>>, <<>>)
  ELSE xlb_xpt_read_rec_len(blkread_vint(rd.state), record_start, resync_pos,
                            rd.data, length)

xlb_xpt_read_sync(rd, record_start, resync_pos, length) ==
  IF rd.rc # "ADLB_SUCCESS" THEN ReadResult(rd.rc, rd.state, 0, <<>>, <<>>)
  ELSE xlb_xpt_read_crc(blkread_uint32(rd.state), record_start, resync_pos, length)

\* xlb_xpt_read with a buffer of length bytes
xlb_xpt_read_from(state, resync_pos, length) ==
  IF ~resync_pos.returns THEN ReadResult("hung", state, 0, <<>>, <<>>)
  ELSE xlb_xpt_read_sync(blkread_uint32(state), xpt_read_pos(state), resync_pos, length)

xlb_xpt_read(state, length) ==
  xlb_xpt_read_from(state, file_pos_add(xpt_read_pos(state), 1), length)

\* what xpt_reload_rank returns: its code, the code of the last
\* xlb_xpt_read, the records added to the index and the counts
ReloadResult(rc, last, index, invalid) ==
  [rc |-> rc, last |-> last, index |-> index, valid |-> Len(index), invalid |-> invalid]

RECURSIVE xpt_reload_loop(_, _, _, _)

xpt_reload_record(rd, length, index, invalid) ==
  IF rd.rc = "hung" THEN ReloadResult("hung", rd.rc, index, invalid)
  ELSE IF rd.rc = "ADLB_DONE" THEN ReloadResult("ADLB_SUCCESS", rd.rc, index, invalid)
  ELSE IF rd.rc = "ADLB_NOTHING" THEN xpt_reload_loop(rd.state, length, index, invalid + 1)
  ELSE IF rd.rc # "ADLB_SUCCESS" THEN ReloadResult("ADLB_ERROR", rd.rc, index, invalid + 1)
  ELSE xpt_reload_loop(rd.state, length, Append(index, <<rd.key, rd.val>>), invalid)

\* on ADLB_RETRY the buffer grows to the length of the record and the
\* record is read again
xpt_reload_retry(rd, length, index, invalid) ==
  IF rd.rc = "ADLB_RETRY"
    THEN xpt_reload_record(xlb_xpt_read(rd.state, rd.key_len), rd.key_len, index, invalid)
  ELSE xpt_reload_record(rd, length, index, invalid)

xpt_reload_loop(state, length, index, invalid) ==
  xpt_reload_retry(xlb_xpt_read(state, length), length, index, invalid)

xpt_reload_selected(rd, length) ==
  IF rd.rc = "ADLB_DONE" THEN ReloadResult("ADLB_SUCCESS", rd.rc, <<>>, 0)
  ELSE IF rd.rc # "ADLB_SUCCESS" THEN ReloadResult(rd.rc, rd.rc, <<>>, 0)
  ELSE xpt_reload_loop(rd.state, length, <<>>, 0)

\* xpt_reload_rank with a buffer of length bytes
xpt_reload_rank(state, length, rank) ==
  xpt_reload_selected(xlb_xpt_read_select(state, rank), length)

\* the file is opened and the records of the rank are loaded
xpt_reload(file, length, rank) ==
  IF xlb_xpt_open_read(file).rc # "ADLB_SUCCESS"
    THEN ReloadResult("ADLB_ERROR", "ADLB_ERROR", <<>>, 0)
  ELSE xpt_reload_rank(xlb_xpt_open_read(file).state, length, rank)

(***************************************************************************)
(* Specification SpecScalar: the data store of one server, driven by        *)
(* clients that work on one scalar datum with every operation.              *)
(***************************************************************************)
InitData ==
  /\ tds = <<>>
  /\ container_references = <<>>
  /\ container_ix_listeners = <<>>
  /\ xlb_read_refcount_enabled = FALSE
  /\ crashed = FALSE
  /\ notif_work = <<>>
  /\ lastOp = NoOp

\* no server is in a sync, no message is in flight
InitSync ==
  /\ sync_target = [s \in Servers |-> 0]
  /\ serving = [s \in Servers |-> 0]
  /\ sync_rpc = [s \in Servers |-> 0]
  /\ server_sync_rejected = [s \in Servers |-> FALSE]
  /\ sync_requests = {}
  /\ sync_responses = {}
  /\ xlb_pending_syncs = [s \in Servers |-> <<>>]

InitNotify == nested_sync = FALSE

\* no shutdown is under way; rc of xlb_sync2 starts as ADLB_SUCCESS
InitShutdown ==
  /\ xlb_shutdown = {}
  /\ sync_code = [s \in Servers |-> "ADLB_SUCCESS"]

\* the queues of every server are empty, no unit has been put
InitWork ==
  /\ xlb_work = [sv \in ServerRanks |-> <<>>]
  /\ xlb_parked = [sv \in ServerRanks |-> <<>>]
  /\ work_delivered = {}
  /\ wu_next = 1
  /\ steal_in_flight = <<>>
  /\ lastNotify = [self |-> ADLB_RANK_NULL, ranks |-> <<>>, log |-> <<>>]

\* every server has run data_init; no client has called ADLB_Unique
InitIds ==
  /\ unique = [n \in ServerNums |-> data_init(xlb_servers, n)]
  /\ minted = [n \in ServerNums |-> <<>>]
  /\ next_server_index = [c \in UniqueClients |-> 0]
  /\ lastUnique = [client |-> ADLB_RANK_NULL, server_num |-> 0,
                   dc |-> "ADLB_DATA_SUCCESS", id |-> ADLB_DATA_ID_NULL,
                   code |-> "ADLB_SUCCESS"]
  /\ locate_id = ADLB_DATA_ID_NULL
  /\ locate_rank = ADLB_RANK_NULL

\* data_init: the table of locks is empty
InitLock == locked = {}

\* the code is compiled with its assertions and debug checks
InitBuild == NDEBUG = FALSE

\* nothing was packed
InitCodec == pack_buf = <<>> /\ unpacked = <<>>

\* no value is given to the codec
InitPackIn == pack_in = <<"NULL", <<>> >>

\* xlb_xpt_init: rank 0 has opened the checkpoint file and written its header
InitXpt ==
  /\ xpt_rank = 0
  /\ xpt_state = xlb_xpt_init(0, <<>>)
  /\ xpt_written = <<>>
  /\ xpt_synced = FALSE
  /\ xpt_loaded = ReloadResult("none", "none", <<>>, 0)

\* no process has called ADLB_Init and no rank was asked about
NoLayout ==
  [xlb_comm_rank |-> ADLB_RANK_NULL, inited |-> FALSE, xlb_am_server |-> FALSE,
   xlb_my_server |-> ADLB_RANK_NULL, rank |-> ADLB_RANK_NULL,
   asked |-> {}, is_server |-> FALSE, server |-> ADLB_RANK_NULL]

\* no position was added to
NoPosAdd == [pos |-> xpt_file_pos(0, 0), add |-> 0, done |-> FALSE, result |-> xpt_file_pos(0, 0)]

InitFn == layout = NoLayout /\ pos_add = NoPosAdd

\* everything but the build and the inputs
InitState ==
  /\ InitData /\ InitSync /\ InitNotify /\ InitShutdown /\ InitWork /\ InitIds /\ InitLock
  /\ InitCodec

Init == InitState /\ InitBuild /\ InitPackIn /\ InitXpt /\ InitFn

Props(r, w, p) == [read_refcount |-> r, write_refcount |-> w, permanent |-> p]

ScalarCreate ==
  \E id \in ScalarIds, r \in CreateCounts, w \in CreateCounts, p \in BOOLEAN :
    data_create(id, IdType(id), Props(r, w, p))

ScalarStore ==
  \E id \in ScalarIds, sub \in Subscripts \cup {NoSub}, type \in {"INTEGER", "REF"} :
    \E v \in ValuesOfType(type), dr \in DecrCounts, dw \in DecrCounts :
      Store(id, sub, v, type, RC(dr, dw))

ScalarRefcountIncr ==
  \E id \in ScalarIds, r \in IncrCounts, w \in IncrCounts : RefcountIncr(id, RC(r, w))

ScalarSubscribe ==
  \E id \in ScalarIds, sub \in Subscripts \cup {NoSub}, rank \in Ranks :
    data_subscribe(id, sub, rank)

ScalarContainerReference ==
  \E id \in ScalarIds, sub \in Subscripts, ref \in RefIds :
    data_container_reference(id, sub, ref, "REF")

ScalarInsertAtomic ==
  \E id \in ScalarIds, sub \in Subscripts : data_insert_atomic(id, sub)

ScalarRetrieve ==
  \E id \in ScalarIds, sub \in Subscripts \cup {NoSub}, decr \in DecrCounts :
    Retrieve(id, sub, decr)

ScalarEnumerate ==
  \E id \in ScalarIds, count \in {-1, 1}, offset \in {0, 1}, decr \in DecrCounts :
    Enumerate(id, count, offset, decr)

NextScalar ==
  \/ ScalarCreate
  \/ ScalarStore
  \/ ScalarRefcountIncr
  \/ ADLBP_Read_refcount_enable
  \/ ScalarSubscribe
  \/ ScalarContainerReference
  \/ ScalarInsertAtomic
  \/ ScalarRetrieve
  \/ ScalarEnumerate

SpecScalar == Init /\ [][NextScalar]_vars

(***************************************************************************)
(* Specification SpecCreate: clients that create, store, subscribe to and   *)
(* release one scalar datum, with the data store of either build, with or   *)
(* without NDEBUG, and props that are valid.  data_create is the only       *)
(* operation of the data store with a check under NDEBUG; where an          *)
(* assertion fails, the build with NDEBUG goes on with the value that       *)
(* failed it, which the model counts as the crash as well.                  *)
(***************************************************************************)
InitAnyBuild == InitState /\ NDEBUG \in BOOLEAN /\ InitPackIn /\ InitXpt /\ InitFn

BuildCreate ==
  \E id \in ScalarIds, r \in 0 .. MaxRefcount, w \in 0 .. MaxRefcount, p \in BOOLEAN :
    data_create(id, IdType(id), Props(r, w, p))

NextCreate ==
  \/ BuildCreate
  \/ ScalarStore
  \/ ScalarRefcountIncr
  \/ ScalarSubscribe

SpecCreate == InitAnyBuild /\ [][NextCreate]_vars

(***************************************************************************)
(* Specification SpecContainer: the data store of one server, driven by     *)
(* clients that work on a container of references, the datum its entries    *)
(* refer to, and the data that container references are resolved into.      *)
(***************************************************************************)
\* the reference data that are created (the other ids of RefIds are only
\* named in container_reference)
CreatedRefIds == {3}

ContainerCreate ==
  \E id \in ContainerIds, r \in 1 .. MaxRefcount :
    data_create(id, IdType(id), Props(r, 1, FALSE))

ReferandCreate ==
  \E id \in ScalarIds \cup CreatedRefIds : data_create(id, IdType(id), Props(1, 1, FALSE))

ContainerStore ==
  \E id \in ContainerIds, sub \in Subscripts, v \in RefValues, dw \in DecrCounts :
    Store(id, sub, v, "REF", RC(0, dw))

\* The holders of a container only release counts here; the counts it gains
\* are the ones it is created with.
ContainerRefcountIncr ==
  \E id \in ContainerIds, r \in {-1, 0}, w \in {-1, 0} : RefcountIncr(id, RC(r, w))

ContainerSubscribe ==
  \E id \in ContainerIds, sub \in Subscripts, rank \in {1} : data_subscribe(id, sub, rank)

ContainerReference ==
  \E id \in ContainerIds, sub \in Subscripts, ref \in RefIds :
    data_container_reference(id, sub, ref, "REF")

ContainerInsertAtomic ==
  \E id \in ContainerIds, sub \in Subscripts : data_insert_atomic(id, sub)

NextContainer ==
  \/ ContainerCreate
  \/ ReferandCreate
  \/ ContainerStore
  \/ xlb_set_ref_and_notify
  \/ ContainerRefcountIncr
  \/ ADLBP_Read_refcount_enable
  \/ ContainerSubscribe
  \/ ContainerReference
  \/ ContainerInsertAtomic

SpecContainer == Init /\ [][NextContainer]_vars

(***************************************************************************)
(* Specification SpecPermanent: the data store of one server, driven by     *)
(* clients that store to, read and release a scalar datum and a container,  *)
(* either of which may be permanent.                                        *)
(***************************************************************************)
PermanentCreate ==
  \E id \in ScalarIds \cup ContainerIds, r \in DecrCounts, w \in DecrCounts, p \in BOOLEAN :
    data_create(id, IdType(id), Props(r, w, p))

PermanentStore ==
  \/ \E id \in ScalarIds, v \in IntValues, dr \in DecrCounts, dw \in DecrCounts :
       Store(id, NoSub, v, "INTEGER", RC(dr, dw))
  \/ \E id \in ContainerIds, sub \in Subscripts, v \in RefValues,
         dr \in DecrCounts, dw \in DecrCounts :
       Store(id, sub, v, "REF", RC(dr, dw))

PermanentRefcountIncr ==
  \E id \in ScalarIds \cup ContainerIds, r \in IncrCounts, w \in IncrCounts :
    RefcountIncr(id, RC(r, w))

PermanentRetrieve ==
  \E id \in ScalarIds \cup ContainerIds, sub \in {NoSub} \cup Subscripts, decr \in DecrCounts :
    Retrieve(id, sub, decr)

PermanentEnumerate ==
  \E id \in ScalarIds \cup ContainerIds, count \in {-1, 1}, offset \in {0, 1},
     decr \in DecrCounts :
    Enumerate(id, count, offset, decr)

NextPermanent ==
  \/ PermanentCreate
  \/ PermanentStore
  \/ PermanentRefcountIncr
  \/ ADLBP_Read_refcount_enable
  \/ PermanentRetrieve
  \/ PermanentEnumerate

SpecPermanent == Init /\ [][NextPermanent]_vars

(***************************************************************************)
(* Specification SpecLookup: the data store of one server, driven by        *)
(* clients that create a scalar datum and a container, store to them,       *)
(* reserve cells of the container and look the data up.                     *)
(***************************************************************************)
LookupSubscripts == Subscripts \cup {"y"}

LookupCreate ==
  \E id \in ScalarIds \cup ContainerIds : data_create(id, IdType(id), Props(1, 1, FALSE))

LookupStore ==
  \/ \E id \in ScalarIds, v \in IntValues : Store(id, NoSub, v, "INTEGER", RC(0, 1))
  \/ \E id \in ContainerIds, sub \in LookupSubscripts, v \in RefValues, dw \in DecrCounts :
       Store(id, sub, v, "REF", RC(0, dw))

LookupInsertAtomic ==
  \E id \in ScalarIds \cup ContainerIds, sub \in LookupSubscripts :
    data_insert_atomic(id, sub)

LookupRetrieve ==
  \E id \in ScalarIds \cup ContainerIds, sub \in {NoSub} \cup LookupSubscripts :
    Retrieve(id, sub, 0)

\* the counts and offsets of the slices asked for
EnumerateCounts == {-2, -1, 0, 1}
EnumerateOffsets == {0, 1, 3}

LookupEnumerate ==
  \E id \in ScalarIds \cup ContainerIds, count \in EnumerateCounts,
     offset \in EnumerateOffsets :
    Enumerate(id, count, offset, 0)

LookupSubscribe ==
  \E id \in ScalarIds \cup ContainerIds, sub \in {NoSub} \cup Subscripts, rank \in Ranks :
    data_subscribe(id, sub, rank)

NextLookup ==
  \/ LookupCreate
  \/ LookupStore
  \/ LookupInsertAtomic
  \/ LookupRetrieve
  \/ LookupEnumerate
  \/ LookupSubscribe

SpecLookup == Init /\ [][NextLookup]_vars

(***************************************************************************)
(* Specification SpecLock: the data store of one server, driven by clients  *)
(* that create and release data and lock and unlock their ids.              *)
(***************************************************************************)
LockRanks == Ranks \cup {3}

LockCreate ==
  \E id \in ScalarIds \cup ContainerIds : data_create(id, IdType(id), Props(1, 1, FALSE))

\* the holders of a datum release their counts
LockRefcountIncr ==
  \E id \in ScalarIds \cup ContainerIds, r \in {-1, 0}, w \in {-1, 0} :
    RefcountIncr(id, RC(r, w))

Lock == \E id \in ScalarIds \cup ContainerIds, rank \in LockRanks : data_lock(id, rank)

Unlock == \E id \in ScalarIds \cup ContainerIds : data_unlock(id)

NextLock ==
  \/ LockCreate
  \/ LockRefcountIncr
  \/ Lock
  \/ Unlock

SpecLock == Init /\ [][NextLock]_vars

(***************************************************************************)
(* Specification SpecPack: a value of one of the types is packed, with or   *)
(* without its length in front of it, and the bytes are unpacked.           *)
(***************************************************************************)
\* the most elements of a multiset
MaxElems == 2

PackIntegers == {0, 300, -2}
PackStrings == {<<>>, <<97, 98>>}
PackKeys == {<<107>>, <<107, 50>>}

\* the containers with keys of PackKeys and the given values
ContainersOf(val_type, values) ==
  {<<"STRING", val_type, members>> :
     members \in UNION {[keys -> values] : keys \in SUBSET PackKeys}}

\* the multisets of at most n of the given values
MultisetsOf(elem_type, values, n) ==
  {<<elem_type, elems>> : elems \in UNION {[1 .. k -> values] : k \in 0 .. n}}

\* the compound values that are nested in others
InnerContainers == ContainersOf("INTEGER", {300})
InnerMultisets == MultisetsOf("INTEGER", {300, -2}, 1)
DeepContainers == ContainersOf("MULTISET", {<<"INTEGER", <<300, 300>> >>})

PackContainers ==
  ContainersOf("INTEGER", PackIntegers) \cup ContainersOf("STRING", PackStrings)
    \cup ContainersOf("CONTAINER", InnerContainers)
    \cup ContainersOf("MULTISET", InnerMultisets)
    \cup ContainersOf("CONTAINER", DeepContainers)

PackMultisets ==
  MultisetsOf("INTEGER", PackIntegers, MaxElems)
    \cup MultisetsOf("STRING", PackStrings, MaxElems)
    \cup MultisetsOf("CONTAINER", InnerContainers, MaxElems)
    \cup MultisetsOf("MULTISET", InnerMultisets, MaxElems)

PackInputs ==
  {<<"INTEGER", i>> : i \in PackIntegers} \cup {<<"STRING", str>> : str \in PackStrings}
    \cup {<<"CONTAINER", container>> : container \in PackContainers}
    \cup {<<"MULTISET", ms>> : ms \in PackMultisets}

InitAnyValue == InitState /\ InitBuild /\ pack_in \in PackInputs /\ InitXpt /\ InitFn

NextPack ==
  \/ PackValue
  \/ PackEntry
  \/ UnpackValue
  \/ UnpackEntry

SpecPack == InitAnyValue /\ [][NextPack]_vars

(***************************************************************************)
(* Specification SpecXpt: one rank writes records to the checkpoint file,   *)
(* flushes and closes it, and the records of the rank are loaded back from  *)
(* the file at a time when nothing is left in the buffer of the writer.     *)
(***************************************************************************)
XptRanks == {0, 1}
XptKeys == {<<1>>, <<2, 3>>}
XptVals == {<<>>, <<7>>, <<8, 9, 10>>}

NotLoaded == ReloadResult("none", "none", <<>>, 0)

\* every rank has called xlb_xpt_init, rank 0 before the others
InitAnyRank ==
  /\ InitState /\ InitBuild /\ InitPackIn /\ InitFn
  /\ xpt_rank \in XptRanks
  /\ xpt_state = IF xpt_rank = 0 THEN xlb_xpt_init(0, <<>>)
                 ELSE xlb_xpt_init(xpt_rank, xlb_xpt_init(0, <<>>).file)
  /\ xpt_written = <<>>
  /\ xpt_synced = FALSE
  /\ xpt_loaded = NotLoaded

XptWrite(key, val) ==
  /\ xpt_state.fd = "open"
  /\ Len(xpt_written) < MaxRecords
  /\ xpt_state' = xlb_xpt_write(xpt_state, key, val)
  /\ xpt_written' = Append(xpt_written, <<key, val>>)
  /\ xpt_synced' = FALSE
  /\ xpt_loaded' = NotLoaded
  /\ UNCHANGED <<xpt_rank, nonXptVars>>

XptFlush ==
  /\ xpt_state.fd = "open"
  /\ ~xpt_synced
  /\ xpt_state' = xlb_xpt_flush(xpt_state)
  /\ xpt_synced' = TRUE
  /\ xpt_loaded' = NotLoaded
  /\ UNCHANGED <<xpt_rank, xpt_written, nonXptVars>>

XptClose ==
  /\ xpt_state.fd = "open"
  /\ xpt_state' = xlb_xpt_close(xpt_state)
  /\ xpt_synced' = (xpt_state'.fd = "closed")
  /\ xpt_loaded' = NotLoaded
  /\ UNCHANGED <<xpt_rank, xpt_written, nonXptVars>>

\* xlb_xpt_load: the buffer of the reader has ReadBufferLength bytes
XptReload ==
  /\ xpt_synced
  /\ xpt_loaded = NotLoaded
  /\ xpt_loaded' = xpt_reload(xpt_state.file, ReadBufferLength, xpt_rank)
  /\ UNCHANGED <<xpt_rank, xpt_state, xpt_written, xpt_synced, nonXptVars>>

NextXpt ==
  \/ \E key \in XptKeys, val \in XptVals : XptWrite(key, val)
  \/ XptFlush
  \/ XptClose
  \/ XptReload

SpecXpt == InitAnyRank /\ [][NextXpt]_vars

(***************************************************************************)
(* Specification SpecScavenge: the data store of one server, driven by      *)
(* clients that store to and release a scalar datum and a container, and    *)
(* that decrement with a request to scavenge the refcounts that the datum   *)
(* holds on its referands.                                                  *)
(***************************************************************************)
\* the refcounts that a caller asks to scavenge
ScavengeCounts == {RC(1, 0), RC(1, 1)}

\* what the caller of data_reference_count gets back, with the change it
\* asked for
ScavengeResult(r, change) == <<r.scavenged, r.gc, change>>

\* data_reference_count with a scavenge request
ScavengeDecr(id, change, scav) ==
  /\ ~crashed
  /\ ApplyRc("refcount_scavenge", id, NoSub, data_reference_count(tds, id, change, scav),
             ScavengeResult(data_reference_count(tds, id, change, scav), change))
  /\ UNCHANGED xlb_read_refcount_enabled
  /\ UNCHANGED nonDataVars

ScavengeAny ==
  \E id \in ScalarIds \cup ContainerIds, r \in {-1, 0}, w \in {-1, 0}, scav \in ScavengeCounts :
    ScavengeDecr(id, RC(r, w), scav)

ScavengeCreate ==
  \E id \in ScalarIds \cup ContainerIds, r \in 1 .. MaxRefcount, w \in 1 .. MaxRefcount,
     p \in BOOLEAN :
    data_create(id, IdType(id), Props(r, w, p))

\* stores that leave the refcounts alone
ScavengeStore ==
  \/ \E id \in ScalarIds, v \in IntValues : Store(id, NoSub, v, "INTEGER", ADLB_NO_RC)
  \/ \E id \in ContainerIds, sub \in Subscripts, v \in RefValues :
       Store(id, sub, v, "REF", ADLB_NO_RC)

NextScavenge ==
  \/ ScavengeCreate
  \/ ScavengeStore
  \/ ADLBP_Read_refcount_enable
  \/ ScavengeAny

SpecScavenge == Init /\ [][NextScavenge]_vars

(***************************************************************************)
(* The sync handshake between servers (sync.c).  A server is in its main    *)
(* loop, in the loop of xlb_sync2 waiting for its target, in                *)
(* xlb_serve_server serving a server whose sync it accepted, or talking to  *)
(* the server that accepted its own sync.                                   *)
(***************************************************************************)
NoServer == 0

xlb_server_sync_in_progress(s) == sync_target[s] # NoServer

InMainLoop(s) ==
  sync_target[s] = NoServer /\ serving[s] = NoServer /\ sync_rpc[s] = NoServer

\* at the top of the loop of xlb_sync2
InSyncLoop(s) == sync_target[s] # NoServer /\ serving[s] = NoServer

Response(from, to, response) == [from |-> from, to |-> to, response |-> response]

send_sync(requests, from, target) == requests \cup {<<from, target>>}

\* xlb_sync2 up to its loop: the flag is set and the request sent
xlb_sync2(s, target) ==
  /\ InMainLoop(s)
  /\ target # s
  /\ sync_target' = [sync_target EXCEPT ![s] = target]
  /\ sync_requests' = send_sync(sync_requests, s, target)
  /\ UNCHANGED <<serving, sync_rpc, server_sync_rejected, sync_responses,
                 xlb_pending_syncs>>
  /\ UNCHANGED nonSyncVars

\* the target answered: accepted ends the loop and the caller goes on to talk
\* to the target, rejected sends the request again
msg_from_target(s) ==
  /\ InSyncLoop(s)
  /\ \E response \in {0, 1} :
       LET target == sync_target[s]
       IN /\ Response(target, s, response) \in sync_responses
          /\ sync_responses' = sync_responses \ {Response(target, s, response)}
          /\ IF response = 1
               THEN /\ sync_target' = [sync_target EXCEPT ![s] = NoServer]
                    /\ sync_rpc' = [sync_rpc EXCEPT ![s] = target]
                    /\ UNCHANGED sync_requests
               ELSE /\ sync_requests' = send_sync(sync_requests, s, target)
                    /\ UNCHANGED <<sync_target, sync_rpc>>
  /\ UNCHANGED <<serving, server_sync_rejected, xlb_pending_syncs>>
  /\ UNCHANGED nonSyncVars

\* a waiting server that serves no request of another server at once
accept_inline_never(other_server, xlb_world_rank) == FALSE

\* the rank-order rule: a waiting server serves at once only a higher rank
accept_inline(other_server, xlb_world_rank) == other_server > xlb_world_rank

\* the accepting response is sent and xlb_serve_server entered
handle_accepted_sync(s, rank) ==
  /\ sync_responses' = sync_responses \cup {Response(s, rank, 1)}
  /\ serving' = [serving EXCEPT ![s] = rank]

\* a waiting server that defers every request of a lower rank and rejects none
msg_from_other_server_noreject(s, other_server) ==
  /\ InSyncLoop(s)
  /\ <<other_server, s>> \in sync_requests
  /\ sync_requests' = sync_requests \ {<<other_server, s>>}
  /\ IF accept_inline(other_server, s)
       THEN /\ handle_accepted_sync(s, other_server)
            /\ server_sync_rejected' = [server_sync_rejected EXCEPT ![s] = FALSE]
            /\ UNCHANGED xlb_pending_syncs
       ELSE /\ xlb_pending_syncs' =
                 [xlb_pending_syncs EXCEPT ![s] = Append(@, other_server)]
            /\ UNCHANGED <<sync_responses, serving, server_sync_rejected>>
  /\ UNCHANGED <<sync_target, sync_rpc>>
  /\ UNCHANGED nonSyncVars

\* a request of another server arrives during the wait: served at once,
\* deferred, or rejected
msg_from_other_server(s, other_server) ==
  /\ InSyncLoop(s)
  /\ <<other_server, s>> \in sync_requests
  /\ sync_requests' = sync_requests \ {<<other_server, s>>}
  /\ IF accept_inline(other_server, s)
       THEN /\ handle_accepted_sync(s, other_server)
            /\ server_sync_rejected' = [server_sync_rejected EXCEPT ![s] = FALSE]
            /\ UNCHANGED xlb_pending_syncs
       ELSE IF Len(xlb_pending_syncs[s]) < PENDING_SYNC_BUFFER_SIZE
       THEN /\ xlb_pending_syncs' =
                 [xlb_pending_syncs EXCEPT ![s] = Append(@, other_server)]
            /\ UNCHANGED <<sync_responses, serving, server_sync_rejected>>
       ELSE /\ sync_responses' = sync_responses \cup {Response(s, other_server, 0)}
            /\ UNCHANGED <<serving, server_sync_rejected, xlb_pending_syncs>>
  /\ UNCHANGED <<sync_target, sync_rpc>>
  /\ UNCHANGED nonSyncVars

\* xlb_serve_server, serving the own sync target: the rejection that the
\* target sent to the own request is received and noted
serve_sync_response(s) ==
  /\ serving[s] # NoServer
  /\ serving[s] = sync_target[s]
  /\ Response(serving[s], s, 0) \in sync_responses
  /\ sync_responses' = sync_responses \ {Response(serving[s], s, 0)}
  /\ server_sync_rejected' = [server_sync_rejected EXCEPT ![s] = TRUE]
  /\ UNCHANGED <<sync_target, serving, sync_rpc, sync_requests, xlb_pending_syncs>>
  /\ UNCHANGED nonSyncVars

\* xlb_serve_server: the served server has had the acceptance and its request
\* is handled, which ends the serving; back in msg_from_other_server the own
\* request is sent again if the served server was the target and rejected it
xlb_serve_server(s) ==
  /\ serving[s] # NoServer
  /\ sync_rpc[serving[s]] = s
  /\ serving' = [serving EXCEPT ![s] = NoServer]
  /\ sync_rpc' = [sync_rpc EXCEPT ![serving[s]] = NoServer]
  /\ sync_requests' =
       IF serving[s] = sync_target[s] /\ server_sync_rejected[s]
         THEN send_sync(sync_requests, s, sync_target[s])
         ELSE sync_requests
  /\ server_sync_rejected' = [server_sync_rejected EXCEPT ![s] = FALSE]
  /\ UNCHANGED <<sync_target, sync_responses, xlb_pending_syncs>>
  /\ UNCHANGED nonSyncVars

\* main loop: a sync request that arrives outside of a sync is accepted
serve_sync_request(s, other_server) ==
  /\ InMainLoop(s)
  /\ <<other_server, s>> \in sync_requests
  /\ sync_requests' = sync_requests \ {<<other_server, s>>}
  /\ handle_accepted_sync(s, other_server)
  /\ UNCHANGED <<sync_target, sync_rpc, server_sync_rejected, xlb_pending_syncs>>
  /\ UNCHANGED nonSyncVars

\* main loop: the oldest deferred request is accepted
serve_pending_sync(s) ==
  /\ InMainLoop(s)
  /\ xlb_pending_syncs[s] # <<>>
  /\ xlb_pending_syncs' = [xlb_pending_syncs EXCEPT ![s] = Tail(@)]
  /\ handle_accepted_sync(s, Head(xlb_pending_syncs[s]))
  /\ UNCHANGED <<sync_target, sync_rpc, server_sync_rejected, sync_requests>>
  /\ UNCHANGED nonSyncVars

(***************************************************************************)
(* Specification SpecSync: servers that start syncs with each other at any  *)
(* time.                                                                     *)
(***************************************************************************)
SyncStart == \E s \in Servers, target \in Servers : xlb_sync2(s, target)

SyncFromTarget == \E s \in Servers : msg_from_target(s)

SyncFromOther == \E s \in Servers, other \in Servers : msg_from_other_server(s, other)

SyncServeResponse == \E s \in Servers : serve_sync_response(s)

SyncServe == \E s \in Servers : xlb_serve_server(s)

SyncServeRequest == \E s \in Servers, other \in Servers : serve_sync_request(s, other)

SyncServePending == \E s \in Servers : serve_pending_sync(s)

\* the steps of servers that are in a sync or serve one
SyncProgress ==
  \/ SyncFromTarget
  \/ SyncFromOther
  \/ SyncServeResponse
  \/ SyncServe
  \/ SyncServeRequest
  \/ SyncServePending

NextSync ==
  \/ SyncStart
  \/ SyncProgress

SpecSync == Init /\ [][NextSync]_vars

(***************************************************************************)
(* Specification SpecSyncNotify: the handshake, with served requests whose  *)
(* handling makes the serving server reach a third server (a notification   *)
(* for a rank of another server, notifications.c).                          *)
(***************************************************************************)
\* xlb_sync2, entered by a server for work of its own: the assertion on
\* xlb_server_sync_in_progress, then the flag is set and the request sent
xlb_sync(s, target) ==
  IF xlb_server_sync_in_progress(s)
    THEN /\ nested_sync' = TRUE
         /\ UNCHANGED <<sync_target, sync_requests>>
    ELSE /\ sync_target' = [sync_target EXCEPT ![s] = target]
         /\ sync_requests' = send_sync(sync_requests, s, target)
         /\ UNCHANGED nested_sync

\* notify_nonlocal on a server: the sync with the home server of the
\* subscriber, which the put of the notification task follows
notify_nonlocal(s, server) == xlb_sync(s, server)

\* xlb_serve_server for a request whose handling closes a datum with a
\* subscriber of another server: the request is handled, which ends the
\* serving, and the notification is sent
xlb_serve_server_notify(s, server) ==
  /\ serving[s] # NoServer
  /\ sync_rpc[serving[s]] = s
  /\ server # s
  /\ serving' = [serving EXCEPT ![s] = NoServer]
  /\ sync_rpc' = [sync_rpc EXCEPT ![serving[s]] = NoServer]
  /\ notify_nonlocal(s, server)
  /\ UNCHANGED <<server_sync_rejected, sync_responses, xlb_pending_syncs>>
  /\ UNCHANGED <<dataVars, shutdownVars, restVars>>

SyncServeNotify == \E s \in Servers, server \in Servers : xlb_serve_server_notify(s, server)

\* the failed assertion of xlb_sync2 ends the run
NextSyncNotify ==
  \/ ~nested_sync /\ NextSync
  \/ ~nested_sync /\ SyncServeNotify

SpecSyncNotify == Init /\ [][NextSyncNotify]_vars

(***************************************************************************)
(* Specification SpecSyncLive: the handshake with the shutdown message of   *)
(* the master server, under the fairness that delivered messages give: a    *)
(* server that polls for a message which stays there receives it.           *)
(***************************************************************************)
\* the shutdown message reaches a server; the master sends it to every
\* server, so once it has reached one it is on its way to the others
shutdown_arrives(s) ==
  /\ s \notin xlb_shutdown
  /\ xlb_shutdown' = xlb_shutdown \cup {s}
  /\ UNCHANGED <<dataVars, syncVars, notifyVars, sync_code, restVars>>

\* the probe for ADLB_TAG_SHUTDOWN_SERVER in the loop of xlb_sync2 succeeds:
\* msg_shutdown ends the loop, rc is ADLB_SHUTDOWN, the flag is cleared
msg_shutdown(s) ==
  /\ InSyncLoop(s)
  /\ s \in xlb_shutdown
  /\ sync_target' = [sync_target EXCEPT ![s] = NoServer]
  /\ sync_code' = [sync_code EXCEPT ![s] = "ADLB_SHUTDOWN"]
  /\ UNCHANGED <<serving, sync_rpc, server_sync_rejected, sync_requests,
                 sync_responses, xlb_pending_syncs>>
  /\ UNCHANGED <<dataVars, notifyVars, xlb_shutdown, restVars>>

\* xlb_serve_server ends at a shutdown without a request of the served server
serve_server_shutdown(s) ==
  /\ serving[s] # NoServer
  /\ s \in xlb_shutdown
  /\ serving' = [serving EXCEPT ![s] = NoServer]
  /\ server_sync_rejected' = [server_sync_rejected EXCEPT ![s] = FALSE]
  /\ UNCHANGED <<sync_target, sync_rpc, sync_requests, sync_responses,
                 xlb_pending_syncs>>
  /\ UNCHANGED nonSyncVars

\* the main loop of a server runs until the shutdown message reaches it
Running(s) == s \notin xlb_shutdown

\* the servers that take part (server 1 stays idle)
LiveServers == {2, 3, 4}

LiveStart == \E s \in LiveServers, target \in LiveServers : Running(s) /\ xlb_sync2(s, target)

LiveFromTarget(s) == msg_from_target(s)

\* the request of server other is received by s, in its wait or its main loop
LiveRequest(s, other) ==
  \/ msg_from_other_server(s, other)
  \/ Running(s) /\ serve_sync_request(s, other)

LiveServe(s) ==
  \/ serve_sync_response(s)
  \/ xlb_serve_server(s)
  \/ serve_server_shutdown(s)

LivePending(s) == Running(s) /\ serve_pending_sync(s)

LiveShutdown(s) == msg_shutdown(s)

\* the master starts the shutdown at any time
LiveShutdownStart == xlb_shutdown = {} /\ \E s \in LiveServers : shutdown_arrives(s)

LiveShutdownArrives(s) == xlb_shutdown # {} /\ shutdown_arrives(s)

NextSyncLive ==
  \/ LiveStart
  \/ LiveShutdownStart
  \/ \E s \in LiveServers :
       \/ LiveFromTarget(s)
       \/ \E other \in LiveServers : LiveRequest(s, other)
       \/ LiveServe(s)
       \/ LivePending(s)
       \/ LiveShutdown(s)
       \/ LiveShutdownArrives(s)

\* The loop of xlb_sync2 probes for the response of the target, for requests
\* and for the shutdown message in every iteration, and the main loop takes
\* requests and deferred requests between any two syncs of its own: a message
\* that is there again and again is received (strong fairness).
FairSyncLive ==
  \A s \in LiveServers :
    /\ SF_vars(LiveFromTarget(s))
    /\ \A other \in LiveServers \ {s} : SF_vars(LiveRequest(s, other))
    /\ WF_vars(LiveServe(s))
    /\ SF_vars(LivePending(s))
    /\ WF_vars(LiveShutdown(s))
    /\ WF_vars(LiveShutdownArrives(s))

SpecSyncLive == Init /\ [][NextSyncLive]_vars /\ FairSyncLive

(***************************************************************************)
(* Specification SpecWork: workers of both servers put units, targeted and  *)
(* untargeted, and get them; a server without work steals from the other.   *)
(***************************************************************************)
WorkPut ==
  \E putter \in {0, 1}, target \in {ADLB_RANK_ANY, 0, 1} :
    ADLBP_Put(putter, target, ADLB_RANK_NULL, 0, 0, 1)

WorkGet == \E rank \in {0, 1, 2} : ADLBP_Get(rank, 0)

WorkSteal == \E thief \in ServerRanks, victim \in ServerRanks : handle_steal(thief, victim)

WorkStealArrives == steal_arrives

NextWork ==
  \/ WorkPut
  \/ WorkGet
  \/ WorkSteal
  \/ WorkStealArrives

SpecWork == Init /\ [][NextWork]_vars

(***************************************************************************)
(* Specification SpecParallel: three workers of one server ask for work of  *)
(* two types; a fourth worker puts single and parallel tasks.               *)
(***************************************************************************)
\* largest number of workers that a task asks for
MaxParallelism == 2

\* number of tasks that the fourth worker puts
MaxGangUnits == 2

ParallelPut ==
  /\ wu_next <= MaxGangUnits
  /\ \E type \in WorkTypes, parallelism \in 1 .. MaxParallelism :
       ADLBP_Put(6, ADLB_RANK_ANY, ADLB_RANK_NULL, type, 0, parallelism)

ParallelGet == \E rank \in {0, 2, 4}, type \in WorkTypes : ADLBP_Get(rank, type)

NextParallel ==
  \/ ParallelPut
  \/ ParallelGet

SpecParallel == Init /\ [][NextParallel]_vars

(***************************************************************************)
(* Specification SpecNotify: the notifications of closed data are sent to   *)
(* subscribed workers, which ask for work of the control type.  They are    *)
(* sent by a server, or by the worker whose store closed the datum and that *)
(* received the ranks from the server (ADLBP_Store, adlb.c).                *)
(***************************************************************************)
\* the ranks that run xlb_close_notify: the servers and worker 2
Notifiers == ServerRanks \cup {2}

\* lists of subscribed ranks that a close hands to xlb_close_notify
NotifyRanks == {<<0>>, <<1>>, <<0, 1>>, <<1, 0>>}

NotifyClose ==
  \E self \in Notifiers, ranks \in NotifyRanks : xlb_close_notify(self, ranks)

NotifyGet == \E rank \in {0, 1} : ADLBP_Get(rank, CONTROL)

NextNotify ==
  \/ NotifyClose
  \/ NotifyGet

SpecNotify == Init /\ [][NextNotify]_vars

(***************************************************************************)
(* Specification SpecRanks: a process of the communicator calls ADLB_Init   *)
(* and then asks whether a rank is a server and which server the rank maps  *)
(* to.                                                                       *)
(***************************************************************************)
InitAnyLayout ==
  /\ InitState /\ InitBuild /\ InitPackIn /\ InitXpt
  /\ pos_add = NoPosAdd
  /\ \E self \in WorkerRanks \cup ServerRanks, rank \in WorkerRanks \cup ServerRanks :
       layout = [NoLayout EXCEPT !.xlb_comm_rank = self, !.rank = rank]

\* ADLBP_Init, lines 176-200: the process learns whether it is a server, and
\* its server if it is not
ADLBP_Init ==
  /\ ~layout.inited
  /\ layout' = [layout EXCEPT !.inited = TRUE,
                              !.xlb_am_server = xlb_am_server(layout.xlb_comm_rank),
                              !.xlb_my_server = xlb_my_server(layout.xlb_comm_rank)]
  /\ UNCHANGED <<pos_add, nonFnVars>>

RankIsServer ==
  /\ layout.inited
  /\ "xlb_is_server" \notin layout.asked
  /\ layout' = [layout EXCEPT !.asked = @ \cup {"xlb_is_server"},
                              !.is_server = xlb_is_server(layout.rank)]
  /\ UNCHANGED <<pos_add, nonFnVars>>

RankMapToServer ==
  /\ layout.inited
  /\ "xlb_map_to_server" \notin layout.asked
  /\ layout' = [layout EXCEPT !.asked = @ \cup {"xlb_map_to_server"},
                              !.server = xlb_map_to_server(layout.rank)]
  /\ UNCHANGED <<pos_add, nonFnVars>>

NextRanks ==
  \/ ADLBP_Init
  \/ RankIsServer
  \/ RankMapToServer

SpecRanks == InitAnyLayout /\ [][NextRanks]_vars

(***************************************************************************)
(* Specification SpecFilePos: file_pos_add applied to a position in a block *)
(* of a rank and a byte count.                                               *)
(***************************************************************************)
\* the largest byte count that is added
MaxAdd == 40

\* the first two blocks of each rank that writes
PosBlocks == {next_block(xlb_comm_size, first_block(rank, xlb_comm_size)) : rank \in XptRanks}
               \cup {first_block(rank, xlb_comm_size) : rank \in XptRanks}

InitAnyPos ==
  /\ InitState /\ InitBuild /\ InitPackIn /\ InitXpt
  /\ layout = NoLayout
  /\ \E block \in PosBlocks, block_pos \in 0 .. (XLB_XPT_BLOCK_SIZE - 1), add \in 0 .. MaxAdd :
       pos_add = [NoPosAdd EXCEPT !.pos = xpt_file_pos(block, block_pos), !.add = add]

FilePosAdd ==
  /\ ~pos_add.done
  /\ pos_add' = [pos_add EXCEPT !.done = TRUE,
                                !.result = file_pos_add(pos_add.pos, pos_add.add)]
  /\ UNCHANGED <<layout, nonFnVars>>

NextFilePos == FilePosAdd

SpecFilePos == InitAnyPos /\ [][NextFilePos]_vars

(***************************************************************************)
(* Specification SpecLocate: ADLB_Locate applied to ids of both signs.      *)
(***************************************************************************)
LocateIds == (-MaxLocateId) .. MaxLocateId

LocateChoose ==
  /\ \E id \in LocateIds : locate_id' = id
  /\ locate_rank' = ADLB_RANK_NULL
  /\ UNCHANGED <<unique, minted, next_server_index, lastUnique>>
  /\ UNCHANGED nonIdVars

Locate ==
  /\ locate_rank = ADLB_RANK_NULL
  /\ locate_rank' = ADLB_Locate(locate_id)
  /\ UNCHANGED <<unique, minted, next_server_index, lastUnique, locate_id>>
  /\ UNCHANGED nonIdVars

NextLocate ==
  \/ LocateChoose
  \/ Locate

SpecLocate == Init /\ [][NextLocate]_vars

(***************************************************************************)
(* Specification SpecUnique: two clients call ADLB_Unique until the ids of  *)
(* the servers are used up.                                                  *)
(***************************************************************************)
\* addresses of the variables that the clients receive the id into
ResultAddresses == {1, 2}

UniqueCall ==
  \E client \in UniqueClients, result \in ResultAddresses : ADLBP_Unique(client, result)

NextUnique == UniqueCall

SpecUnique == Init /\ [][NextUnique]_vars

(***************************************************************************)
(* Properties of a scalar datum (checked under SpecScalar).                 *)
(***************************************************************************)
\* number of times x occurs in the list
Occurrences(list, x) == Cardinality({i \in 1 .. Len(list) : list[i] = x})
\* the elements of the list
Range(list) == {list[i] : i \in 1 .. Len(list)}

\* C1: a store without subscript of a value of the right type to a scalar
\* that is already set, or whose write_refcount is 0, fails with DOUBLE_WRITE
\* (so a scalar is assigned at most once).
C1_ScalarStoredOnce ==
  [][\A id \in DOMAIN tds :
       ( /\ lastOp'.op = "store" /\ lastOp'.id = id /\ lastOp'.sub = NoSub
         /\ tds[id].init /\ tds[id].type = "INTEGER"
         /\ lastOp'.result # <<>> /\ lastOp'.result[1] \in IntValues
         /\ (tds[id].set \/ tds[id].write_refcount = 0) )
       => lastOp'.dc = "DOUBLE_WRITE"]_vars

\* C3: every datum in the store has read_refcount >= 0 and write_refcount >= 0.
C3_RefcountsNonNegative ==
  \A id \in DOMAIN tds : tds[id].read_refcount >= 0 /\ tds[id].write_refcount >= 0

\* C4: no datum that went through datum_init_props, is not permanent and has
\* both refcounts 0 is in the store.
C4_NoDeadDatum ==
  \A id \in DOMAIN tds :
    ~(tds[id].init /\ ~tds[id].permanent
      /\ tds[id].read_refcount = 0 /\ tds[id].write_refcount = 0)

\* C5: a step that takes the write_refcount of a datum from positive to 0
\* (or destroys the datum) hands out each listener of the datum exactly
\* once, nobody else, and leaves the listener list of the datum empty.
C5_CloseNotifiesEachListenerOnce ==
  [][\A id \in DOMAIN tds :
       ( /\ tds[id].write_refcount > 0
         /\ (id \notin DOMAIN tds' \/ tds'[id].write_refcount = 0) )
       => /\ \A rank \in Ranks :
               Occurrences(lastOp'.notifs.close_notify, rank) =
                 IF rank \in Range(tds[id].listeners) THEN 1 ELSE 0
          /\ id \in DOMAIN tds' => tds'[id].listeners = <<>>]_vars

\* C5 witness: a datum that stays in the store was closed and both
\* subscribed ranks were handed out.
C5_Witness ==
  /\ lastOp.op \in {"store", "refcount_incr"}
  /\ Len(lastOp.notifs.close_notify) = Cardinality(Ranks)
  /\ lastOp.id \in DOMAIN tds
  /\ tds[lastOp.id].write_refcount = 0
  /\ tds[lastOp.id].listeners = <<>>

\* C9: a store, retrieve, enumerate or refcount_incr neither removes a
\* permanent datum nor changes its read_refcount.
C9_PermanentKept ==
  [][\A id \in DOMAIN tds :
       ( /\ tds[id].permanent
         /\ lastOp'.op \in {"store", "set_ref", "retrieve", "enumerate", "refcount_incr"} )
       => /\ id \in DOMAIN tds'
          /\ tds'[id].permanent
          /\ tds'[id].read_refcount = tds[id].read_refcount]_vars

\* C9 witness: an operation closed a permanent datum whose refcounts are now
\* both 0, and the datum is still there.
C9_Witness ==
  /\ lastOp.op \in {"store", "refcount_incr"}
  /\ lastOp.id \in DOMAIN tds
  /\ tds[lastOp.id].init /\ tds[lastOp.id].permanent
  /\ tds[lastOp.id].read_refcount = 0 /\ tds[lastOp.id].write_refcount = 0
  /\ tds[lastOp.id].set

(***************************************************************************)
(* Properties of a container and its references (checked under             *)
(* SpecContainer).                                                          *)
(***************************************************************************)
\* the subscript of the container datum d holds a stored value
Linked(d, sub) == sub \in DOMAIN d.members /\ d.members[sub] # <<>>

\* the step is a client's store to (id, sub)
StoreStep(id, sub) == lastOp'.op = "store" /\ lastOp'.id = id /\ lastOp'.sub = sub

\* the step is a client's store to (id, sub) that links the subscript
FillStep(id, sub) ==
  /\ StoreStep(id, sub)
  /\ id \in DOMAIN tds /\ tds[id].type = "CONTAINER" /\ ~Linked(tds[id], sub)
  /\ \/ lastOp'.dc = "SUCCESS"
     \/ id \in DOMAIN tds' /\ Linked(tds'[id], sub)

\* C2: a store to (id, subscript) succeeds only if the subscript is absent or
\* unlinked; on a linked subscript it fails with DOUBLE_WRITE; and the value
\* of a linked subscript never changes while the container exists, so at most
\* one store to a subscript succeeds.
C2_SubscriptStoredOnce ==
  [][\A id \in DOMAIN tds : \A sub \in Subscripts :
       /\ (StoreStep(id, sub) /\ tds[id].type = "CONTAINER" /\ lastOp'.dc = "SUCCESS")
            => ~Linked(tds[id], sub)
       /\ (StoreStep(id, sub) /\ tds[id].type = "CONTAINER" /\ Linked(tds[id], sub))
            => lastOp'.dc = "DOUBLE_WRITE"
       /\ (tds[id].type = "CONTAINER" /\ Linked(tds[id], sub) /\ id \in DOMAIN tds')
            => tds'[id].members[sub] = tds[id].members[sub]]_vars

\* C2 witness: a store to a linked subscript of an open container was
\* refused with DOUBLE_WRITE.
C2_Witness ==
  /\ lastOp.op = "store" /\ lastOp.sub # NoSub /\ lastOp.dc = "DOUBLE_WRITE"
  /\ lastOp.id \in DOMAIN tds
  /\ tds[lastOp.id].write_refcount > 0
  /\ Linked(tds[lastOp.id], lastOp.sub)

\* C6: a store that fills (id, subscript) hands out each rank subscribed to
\* the pair exactly once (insert notification) and each reference id
\* registered for the pair exactly once (set-reference task with the stored
\* value), and afterwards neither table has an entry for the pair.
C6_InsertNotifiesAll ==
  [][\A id \in DOMAIN tds : \A sub \in Subscripts :
       FillStep(id, sub) =>
         LET pair == <<id, sub>>
             n == Len(lastOp'.notifs.references)
             k == Len(notif_work') - n
         IN /\ \A rank \in Ranks :
                 Occurrences(lastOp'.notifs.insert_notify, rank) =
                   IF rank \in Range(Registered(container_ix_listeners, pair)) THEN 1 ELSE 0
            /\ \A ref \in RefIds :
                 Occurrences(lastOp'.notifs.references, ref) =
                   IF ref \in Range(Registered(container_references, pair)) THEN 1 ELSE 0
            /\ k = Len(notif_work)
            /\ \A i \in 1 .. n :
                 notif_work'[k + i] = [id |-> lastOp'.notifs.references[i],
                                       value |-> lastOp'.result[1], type |-> "REF"]
            /\ pair \notin DOMAIN container_references'
            /\ pair \notin DOMAIN container_ix_listeners']_vars

\* C7: the first container_reference on an unfilled pair leaves the read
\* refcount of the container as it is, every further one takes one off, and
\* the store that fills the pair takes off the one that was kept (besides the
\* read decrement the store itself asks for).
C7_OneRefcountPerPair ==
  [][\A id \in DOMAIN tds : \A sub \in Subscripts :
       /\ ( /\ lastOp'.op = "container_reference" /\ lastOp'.id = id /\ lastOp'.sub = sub
            /\ lastOp'.dc = "SUCCESS" /\ tds[id].type = "CONTAINER" /\ ~Linked(tds[id], sub) )
          => tds'[id].read_refcount =
               IF <<id, sub>> \in DOMAIN container_references
                 THEN tds[id].read_refcount - 1 ELSE tds[id].read_refcount
       /\ \A v \in RefValues, dr \in DecrCounts, dw \in DecrCounts :
            ( /\ Store(id, sub, v, "REF", RC(dr, dw))
              /\ FillStep(id, sub)
              /\ <<id, sub>> \in DOMAIN container_references
              /\ id \in DOMAIN tds' )
            => tds'[id].read_refcount =
                 tds[id].read_refcount - 1 - (IF xlb_read_refcount_enabled THEN dr ELSE 0)]_vars

\* the referand of the value stored by the step, when it is in the store
\* before and after
ReferandKept(r) == lastOp'.result = <<r>> /\ r \in DOMAIN tds /\ r \in DOMAIN tds'

BlockedOn(a, b) ==
  /\ sync_target[a] = b
  /\ a \in Range(xlb_pending_syncs[b])
  /\ xlb_server_sync_in_progress(b)

\* C10: no set of servers is such that each of them is blocked in its sync
\* on another one of the set (a cycle A on B, B on C, C on A), and whenever a
\* server is in a sync some server in a sync or serving one can take a step.
C10_NoSyncCycle ==
  /\ \A S \in (SUBSET Servers) \ {{}} :
       \E a \in S : \A b \in S : ~BlockedOn(a, b)
  /\ (\E s \in Servers : xlb_server_sync_in_progress(s)) => ENABLED SyncProgress

\* C10 witness: servers 1 and 2 are each in a sync with the other as target;
\* 2 has deferred the request of 1, and 1 serves 2 during its own wait.
C10_Witness ==
  /\ sync_target[1] = 2 /\ sync_target[2] = 1
  /\ 1 \in Range(xlb_pending_syncs[2])
  /\ serving[1] = 2

\* C11: a request of server C that reaches server A during A's wait is
\* accepted and served at once when C's rank is greater than A's (A answers 1
\* and serves C, the buffer is untouched); when C's rank is lower it is
\* appended to A's pending buffer while fewer than PENDING_SYNC_BUFFER_SIZE
\* requests are stored (no answer is sent), and answered with a reject only
\* when the buffer is full; so the pending count of every server stays
\* within 0 .. PENDING_SYNC_BUFFER_SIZE.
C11_AcceptDeferReject ==
  [][/\ \A a \in Servers : Len(xlb_pending_syncs[a]) \in 0 .. PENDING_SYNC_BUFFER_SIZE
     /\ \A a \in Servers, c \in Servers :
          msg_from_other_server(a, c) =>
            IF c > a
              THEN /\ sync_responses' = sync_responses \cup {Response(a, c, 1)}
                   /\ serving'[a] = c
                   /\ xlb_pending_syncs' = xlb_pending_syncs
              ELSE IF Len(xlb_pending_syncs[a]) < PENDING_SYNC_BUFFER_SIZE
              THEN /\ xlb_pending_syncs'[a] = Append(xlb_pending_syncs[a], c)
                   /\ sync_responses' = sync_responses
                   /\ serving' = serving
              ELSE /\ sync_responses' = sync_responses \cup {Response(a, c, 0)}
                   /\ xlb_pending_syncs' = xlb_pending_syncs
                   /\ serving' = serving]_vars

\* C11 witness: a waiting server with a full pending buffer has rejected the
\* request of a lower rank that is not in the buffer, and serves a higher rank.
C11_Witness ==
  \E a \in Servers, c \in Servers :
    /\ c < a
    /\ xlb_server_sync_in_progress(a)
    /\ Len(xlb_pending_syncs[a]) = PENDING_SYNC_BUFFER_SIZE
    /\ c \notin Range(xlb_pending_syncs[a])
    /\ Response(a, c, 0) \in sync_responses
    /\ \E b \in Servers : b < a /\ serving[b] = a /\ xlb_server_sync_in_progress(b)

\* C12: no server enters xlb_sync2 while its xlb_server_sync_in_progress is
\* true, whatever work it performs while it serves a sync that it accepted
\* during its own wait.
C12_NoNestedSync == ~nested_sync

\* C13: every sync that a server starts eventually completes: the in-progress
\* flag that xlb_sync2 sets is eventually cleared again, by the acceptance of
\* the target or by the shutdown message.
C13_SyncCompletes ==
  \A s \in LiveServers :
    xlb_server_sync_in_progress(s) ~> ~xlb_server_sync_in_progress(s)

(***************************************************************************)
(* Properties of the work queues (checked under SpecWork, SpecParallel and  *)
(* SpecNotify).                                                              *)
(***************************************************************************)
\* C14: a unit that was put with a target rank is handed only to that rank:
\* the put sends it to the server of the target, so a targeted unit waits on
\* no other server, and every delivery of a targeted unit is to its target
\* alone, whichever ranks ask for work.
C14_TargetedOnlyToTarget ==
  /\ \A d \in work_delivered :
       d.unit.target # ADLB_RANK_ANY => d.ranks = {d.unit.target}
  /\ \A sv \in ServerRanks : \A i \in 1 .. Len(xlb_work[sv]) :
       xlb_work[sv][i].target # ADLB_RANK_ANY =>
         sv = xlb_map_to_server(xlb_work[sv][i].target)

\* C14 witness: a worker of the other server has put a unit for rank 0 that
\* waits on the server of rank 0 while rank 2 is parked there, and a unit
\* that was put for rank 1 by a worker of the other server was handed to 1.
C14_Witness ==
  /\ \E i \in 1 .. Len(xlb_work[xlb_map_to_server(0)]) :
       /\ xlb_work[xlb_map_to_server(0)][i].target = 0
       /\ xlb_work[xlb_map_to_server(0)][i].putter = 1
  /\ \E j \in 1 .. Len(xlb_parked[xlb_map_to_server(0)]) :
       xlb_parked[xlb_map_to_server(0)][j].rank = 2
  /\ \E d \in work_delivered :
       d.unit.target = 1 /\ d.unit.putter = 0 /\ d.ranks = {1}

\* the places where the unit id is: slots of the work queues, the units that
\* are on the way to a thief, and the deliveries
QueueSlots(id) ==
  {p \in UNION {{sv} \X (1 .. Len(xlb_work[sv])) : sv \in ServerRanks} :
     xlb_work[p[1]][p[2]].id = id}

FlightSlots(id) ==
  IF steal_in_flight = <<>> THEN {}
  ELSE {i \in 1 .. Len(steal_in_flight[2]) : steal_in_flight[2][i].id = id}

Deliveries(id) == {d \in work_delivered : d.unit.id = id}

\* C15: every unit that was put is in exactly one place: in the work queue of
\* one server, on the way from the victim of a steal to the thief, or handed
\* to one worker; so no unit is on two servers, handed out twice or lost, and
\* a steal takes from the queue of the victim just the units that it sends.
C15_ConsumedExactlyOnce ==
  /\ [](\A id \in 1 .. (wu_next - 1) :
         /\ Cardinality(QueueSlots(id)) + Cardinality(FlightSlots(id))
              + Cardinality(Deliveries(id)) = 1
         /\ \A d \in Deliveries(id) : Cardinality(d.ranks) = 1)
  /\ [][\A thief \in ServerRanks, victim \in ServerRanks :
          handle_steal(thief, victim) =>
            /\ steal_in_flight'[2] # <<>>
            /\ Len(xlb_work'[victim]) + Len(steal_in_flight'[2]) = Len(xlb_work[victim])
            /\ xlb_work'[thief] = xlb_work[thief]]_vars

\* C15 witness: a unit that was stolen from the queue of the server of its
\* putter has arrived at the thief and was handed to a worker of the thief,
\* while another unit is still in the queue of the victim.
C15_Witness ==
  \E d \in work_delivered, sv \in ServerRanks :
    /\ d.unit.target = ADLB_RANK_ANY
    /\ \E r \in d.ranks : xlb_my_server(r) # xlb_my_server(d.unit.putter)
    /\ steal_in_flight = <<>>
    /\ sv = xlb_my_server(d.unit.putter)
    /\ xlb_work[sv] # <<>>

\* the ranks that are parked on some server, and those that ask for a type
AllParked == UNION {ParkedRanks(xlb_parked[sv]) : sv \in ServerRanks}

ParkedFor(type) ==
  UNION {RanksAt(xlb_parked[sv], OfType(xlb_parked[sv], type)) : sv \in ServerRanks}

\* C16: a task of parallelism N > 1 is released only to a gang of N parked
\* workers of its type that are reserved together.  While fewer than N such
\* workers are parked the task stays queued and none of them leaves the
\* request queue; when the gang is formed, exactly N distinct workers that
\* asked for the type receive the task and leave the request queue, and
\* every other parked worker stays parked.
C16_GangAllOrNothing ==
  /\ [](\A sv \in ServerRanks : \A i \in 1 .. Len(xlb_work[sv]) :
         xlb_work[sv][i].parallelism > 1 =>
           Cardinality(OfType(xlb_parked[sv], xlb_work[sv][i].type))
             < xlb_work[sv][i].parallelism)
  /\ [](\A d \in work_delivered :
         Cardinality(d.ranks) = d.unit.parallelism)
  /\ [][/\ \A d \in work_delivered' \ work_delivered :
            d.unit.parallelism > 1 =>
              /\ \A r \in d.ranks :
                   r \in ParkedFor(d.unit.type) \/ r \notin AllParked
              /\ d.ranks \cap AllParked' = {}
              /\ AllParked \ d.ranks \subseteq AllParked'
              /\ d.left = ParkedRanks(xlb_parked'[xlb_my_server(d.unit.putter)])
        /\ \A r \in AllParked \ AllParked' :
            \E d \in work_delivered' \ work_delivered : r \in d.ranks]_vars

\* C16 witness: a task of parallelism 2 went to two of three parked workers
\* of its type, the third stayed parked and is still parked, and a second
\* task of parallelism 2 and that type waits in the queue for its gang.
C16_Witness ==
  \E d \in work_delivered, sv \in ServerRanks :
    /\ d.unit.parallelism = 2
    /\ Cardinality(d.ranks) = 2
    /\ Cardinality(d.left) = 1
    /\ d.left = RanksAt(xlb_parked[sv], OfType(xlb_parked[sv], d.unit.type))
    /\ \E i \in 1 .. Len(xlb_work[sv]) :
         /\ xlb_work[sv][i].parallelism = 2
         /\ xlb_work[sv][i].type = d.unit.type

\* what every notification of the last xlb_close_notify has in common: the
\* k-th one is a unit of the control type with priority 1 for the k-th
\* subscribed rank, it is added on the notifying rank itself exactly when
\* that rank is the server of the subscriber, it is put to the server of the
\* subscriber otherwise, and it waits there or was handed to the subscriber
NotifyTask(k) ==
  /\ lastNotify.log[k].unit.type = CONTROL
  /\ lastNotify.log[k].unit.priority = 1
  /\ lastNotify.log[k].unit.target = lastNotify.ranks[k]
  /\ lastNotify.log[k].unit.parallelism = 1
  /\ lastNotify.log[k].local <=> (xlb_map_to_server(lastNotify.ranks[k]) = lastNotify.self)
  /\ lastNotify.log[k].put_to = xlb_map_to_server(lastNotify.ranks[k])
  /\ \/ \E i \in 1 .. Len(xlb_work[lastNotify.log[k].put_to]) :
          xlb_work[lastNotify.log[k].put_to][i] = lastNotify.log[k].unit
     \/ \E d \in work_delivered :
          d.unit = lastNotify.log[k].unit /\ d.ranks = {lastNotify.ranks[k]}

\* C17: every notification is a task of the control type with priority 1 for
\* the subscribed rank; it is added to the local work queue exactly when the
\* server of the subscriber is the notifying rank, and otherwise it is put to
\* the server of the subscriber after a sync with that server.
C17_NotifyTransport ==
  /\ Len(lastNotify.log) = Len(lastNotify.ranks)
  /\ \A k \in 1 .. Len(lastNotify.log) :
       /\ NotifyTask(k)
       /\ ~lastNotify.log[k].local =>
            lastNotify.log[k].synced = xlb_map_to_server(lastNotify.ranks[k])

\* C17 as the code has it: the sync with the server of the subscriber comes
\* before the put only when the notifying rank is a server; a worker that
\* notifies puts the task without a sync.
C17_NotifyTransport_ServerSyncs ==
  /\ Len(lastNotify.log) = Len(lastNotify.ranks)
  /\ \A k \in 1 .. Len(lastNotify.log) :
       /\ NotifyTask(k)
       /\ lastNotify.log[k].local => lastNotify.log[k].synced = ADLB_RANK_NULL
       /\ ~lastNotify.log[k].local =>
            lastNotify.log[k].synced =
              IF xlb_am_server(lastNotify.self)
                THEN xlb_map_to_server(lastNotify.ranks[k])
                ELSE ADLB_RANK_NULL

\* C17 witness: a server has notified two subscribers, one of its own and one
\* of the other server: the first task was added locally, the second was put
\* to the other server after a sync with it.
C17_Witness ==
  /\ xlb_am_server(lastNotify.self)
  /\ Len(lastNotify.log) = 2
  /\ \E k \in 1 .. 2 : lastNotify.log[k].local
  /\ \E k \in 1 .. 2 :
       /\ ~lastNotify.log[k].local
       /\ lastNotify.log[k].synced = lastNotify.log[k].put_to
       /\ lastNotify.log[k].put_to # lastNotify.self

(***************************************************************************)
(* Properties of datum ids (checked under SpecLocate and SpecUnique).       *)
(***************************************************************************)
\* C18: for every datum id, ADLB_Locate returns the server with index
\* ((id - 1) mod S) counted from the first server rank, the rank just after
\* the last worker.
C18_LocateIdMinusOne ==
  locate_rank # ADLB_RANK_NULL =>
    locate_rank = xlb_workers + ((locate_id - 1) % xlb_servers)

\* C18 as the code has it: ADLB_Locate returns the server with index
\* (id mod S), the remainder taken in 0 .. S-1 also for a negative id,
\* counted from the first server rank.
C18_LocateIdModServers ==
  locate_rank # ADLB_RANK_NULL =>
    /\ locate_rank = xlb_workers + (locate_id % xlb_servers)
    /\ locate_rank \in ServerRanks

\* C18 witness: ADLB_Locate has answered for a negative id whose remainder in
\* C is negative, and the answer is not the first server.
C18_Witness ==
  /\ locate_id < 0
  /\ CRem(locate_id, xlb_servers) < 0
  /\ locate_rank \in ServerRanks
  /\ locate_rank # xlb_workers

\* C19: the ids that the server with index n returns to successive unique
\* calls are n, n + S, n + 2S, ... (S, 2S, ... for server 0, since 0 is the
\* null id): a strictly increasing sequence, so no server returns an id
\* twice, no two servers return the same id, and 0 is never returned.
C19_UniqueIds ==
  /\ \A n \in ServerNums : \A k \in 1 .. Len(minted[n]) :
       /\ minted[n][k] = (IF n = 0 THEN xlb_servers ELSE n) + (k - 1) * xlb_servers
       /\ minted[n][k] # ADLB_DATA_ID_NULL
       /\ \A j \in 1 .. (k - 1) : minted[n][j] < minted[n][k]
  /\ \A n \in ServerNums, m \in ServerNums :
       n # m => Range(minted[n]) \cap Range(minted[m]) = {}
  /\ (lastUnique.client # ADLB_RANK_NULL /\ lastUnique.dc = "ADLB_DATA_SUCCESS") =>
       /\ lastUnique.id = minted[lastUnique.server_num][Len(minted[lastUnique.server_num])]
       /\ ADLB_Locate(lastUnique.id) = xlb_workers + lastUnique.server_num

\* C19 witness: every server has answered three unique calls, the last one
\* with success.
C19_Witness ==
  /\ \A n \in ServerNums : Len(minted[n]) >= 3
  /\ lastUnique.client # ADLB_RANK_NULL
  /\ lastUnique.dc = "ADLB_DATA_SUCCESS"
  /\ lastUnique.server_num = 0

\* C20: once the counter of a server has reached the limit, unique mints no
\* id: data_unique returns ADLB_DATA_ERROR_LIMIT with the null id, and the
\* call ADLB_Unique of the client does not return ADLB_SUCCESS.
C20_UniqueLimitReported ==
  (lastUnique.client # ADLB_RANK_NULL /\ lastUnique.dc = "ADLB_DATA_ERROR_LIMIT") =>
    /\ lastUnique.id = ADLB_DATA_ID_NULL
    /\ unique[lastUnique.server_num] >= last_id
    /\ lastUnique.code # "ADLB_SUCCESS"

(***************************************************************************)
(* Properties of create and of the codes that the clients receive (checked  *)
(* under SpecCreate and SpecScalar).                                        *)
(***************************************************************************)
\* C21: a create with an id that is already in the store fails with
\* DOUBLE_DECLARE and leaves the datum that is there as it is, in type,
\* value, refcounts and listeners.
C21_DoubleDeclare ==
  [][\A id \in DatumIds :
       (lastOp'.op = "create" /\ lastOp'.id = id /\ id \in DOMAIN tds) =>
         /\ lastOp'.dc = "DOUBLE_DECLARE"
         /\ id \in DOMAIN tds'
         /\ tds'[id] = tds[id]
         /\ container_ix_listeners' = container_ix_listeners
         /\ container_references' = container_references]_vars

\* C22: both violations of single assignment reach the calling client as
\* ADLB_REJECTED and the server goes on: a store that the data store answers
\* with DOUBLE_WRITE returns ADLB_REJECTED, and a create that it answers
\* with DOUBLE_DECLARE returns ADLB_REJECTED.
C22_RejectedToClient ==
  /\ (lastOp.op = "store" /\ lastOp.dc = "DOUBLE_WRITE") =>
       xlb_store_code(lastOp.dc) = "ADLB_REJECTED" /\ ~crashed
  /\ (lastOp.op = "create" /\ lastOp.dc = "DOUBLE_DECLARE") =>
       ADLBP_Create_impl_code(lastOp.dc) = "ADLB_REJECTED" /\ ~crashed

(***************************************************************************)
(* Properties of the lookups (checked under SpecLookup)                     *)
(***************************************************************************)
RetrieveFailures == {"NOT_FOUND", "SUBSCRIPT_NOT_FOUND", "UNSET"}

\* the step is a retrieve of <id>[subscript]
RetrieveStep(id, subscript) ==
  /\ ~crashed
  /\ lastOp' = Op("retrieve", id, subscript, lastOp'.dc, lastOp'.notifs, lastOp'.result)
  /\ tds' = tds

\* the codes with which data_retrieve answers a lookup that finds no value
RetrieveDataCodes(id, subscript) ==
  /\ id \notin DOMAIN tds => lastOp'.dc = "NOT_FOUND"
  /\ (/\ id \in DOMAIN tds
      /\ subscript # NoSub
      /\ tds[id].type = "CONTAINER"
      /\ tds[id].init
      /\ (subscript \notin DOMAIN tds[id].members \/ tds[id].members[subscript] = <<>>))
     => lastOp'.dc = "SUBSCRIPT_NOT_FOUND"
  /\ (id \in DOMAIN tds /\ subscript = NoSub /\ ~tds[id].set) => lastOp'.dc = "UNSET"
  /\ lastOp'.dc \in RetrieveFailures => lastOp'.result = <<>>

\* what the caller of ADLB_Retrieve receives for the code dc
CallerSees(dc) == ADLBP_Retrieve_code(dc, 0)

\* C23: a retrieve answers NOT_FOUND for an id that does not exist,
\* SUBSCRIPT_NOT_FOUND for a subscript that is absent or whose cell is reserved
\* but not linked, and UNSET for a datum that exists but is not set, and the
\* caller of the retrieve can tell each of these three outcomes from the
\* other two
C23_RetrieveCodesApart ==
  [][\A id \in ScalarIds \cup ContainerIds, sub \in {NoSub} \cup LookupSubscripts :
       RetrieveStep(id, sub) =>
         /\ RetrieveDataCodes(id, sub)
         /\ \A dc \in RetrieveFailures \ {lastOp'.dc} :
              lastOp'.dc \in RetrieveFailures => CallerSees(dc) # CallerSees(lastOp'.dc)]_vars

\* C23, as the code has it: the server answers with the three codes, one per
\* case; the caller of ADLB_Retrieve receives success with length -1 for
\* both NOT_FOUND and SUBSCRIPT_NOT_FOUND and ADLB_ERROR for UNSET, so it can
\* tell an unset datum from a missing one but not a missing id from a
\* missing subscript
C23_RetrieveCodesAtServer ==
  [][\A id \in ScalarIds \cup ContainerIds, sub \in {NoSub} \cup LookupSubscripts :
       RetrieveStep(id, sub) =>
         /\ RetrieveDataCodes(id, sub)
         /\ lastOp'.dc \in {"NOT_FOUND", "SUBSCRIPT_NOT_FOUND"} =>
              CallerSees(lastOp'.dc) =
                [code |-> "ADLB_SUCCESS", length_written |-> TRUE, length |-> -1]
         /\ lastOp'.dc = "UNSET" =>
              /\ CallerSees(lastOp'.dc).code = "ADLB_ERROR"
              /\ CallerSees("NOT_FOUND") # CallerSees("UNSET")
              /\ CallerSees("SUBSCRIPT_NOT_FOUND") # CallerSees("UNSET")]_vars

\* a retrieve of a reserved cell that was never linked was answered
C23_Witness ==
  /\ lastOp.op = "retrieve"
  /\ lastOp.dc = "SUBSCRIPT_NOT_FOUND"
  /\ lastOp.id \in DOMAIN tds
  /\ lastOp.sub \in DOMAIN tds[lastOp.id].members
  /\ tds[lastOp.id].members[lastOp.sub] = <<>>

\* the step is an insert_atomic on <id>[subscript] of a container that exists
InsertAtomicStep(id, subscript) ==
  /\ ~crashed
  /\ id \in DOMAIN tds
  /\ tds[id].type = "CONTAINER"
  /\ tds[id].init
  /\ lastOp' = Op("insert_atomic", id, subscript, "SUCCESS", lastOp'.notifs, lastOp'.result)

\* the cell of the subscript is reserved and has no value
Unlinked(t, id, subscript) ==
  subscript \in DOMAIN t[id].members /\ t[id].members[subscript] = <<>>

\* insert_atomic on a subscript that is absent or that has a value
InsertAtomicOuterCases(id, subscript) ==
  /\ subscript \notin DOMAIN tds[id].members =>
       lastOp'.result[1] = TRUE /\ Unlinked(tds', id, subscript)
  /\ Linked(tds[id], subscript) =>
       lastOp'.result = <<FALSE, TRUE>> /\ tds' = tds

\* C24: insert_atomic on an absent subscript inserts an unlinked cell and
\* returns created = true; on a subscript that is present but has no value
\* yet it returns created = true and the cell stays unlinked; on a subscript
\* that is present and linked to a value it returns created = false
C24_InsertAtomicCases ==
  [][\A id \in ContainerIds, sub \in LookupSubscripts :
       InsertAtomicStep(id, sub) =>
         /\ InsertAtomicOuterCases(id, sub)
         /\ Unlinked(tds, id, sub) =>
              lastOp'.result[1] = TRUE /\ Unlinked(tds', id, sub)]_vars

\* C24, as the code has it: on a subscript that is present but has no value
\* yet insert_atomic returns created = false and value_present = false, and
\* the cell stays unlinked; the other two cases are as stated
C24_InsertAtomicCases_PresentIsNotCreated ==
  [][\A id \in ContainerIds, sub \in LookupSubscripts :
       InsertAtomicStep(id, sub) =>
         /\ InsertAtomicOuterCases(id, sub)
         /\ Unlinked(tds, id, sub) =>
              lastOp'.result = <<FALSE, FALSE>> /\ tds' = tds]_vars

\* an insert_atomic found a cell that was reserved and has no value
C24_Witness ==
  /\ lastOp.op = "insert_atomic"
  /\ lastOp.dc = "SUCCESS"
  /\ lastOp.result = <<FALSE, FALSE>>
  /\ Unlinked(tds, lastOp.id, lastOp.sub)

ToEnd(size, offset) == IF size - offset < 0 THEN 0 ELSE size - offset

\* C26: enumerate with any negative count means "to end": it returns every
\* entry from offset to the end, so the entries packed into the result are
\* exactly the max(0, size - offset) entries that the call reports as its
\* record count
C26_EnumerateToEnd ==
  [][\A id \in ContainerIds, count \in EnumerateCounts, offset \in EnumerateOffsets :
       (/\ count < 0
        /\ id \in DOMAIN tds
        /\ tds[id].init
        /\ Enumerate(id, count, offset, 0))
       => /\ lastOp'.dc = "SUCCESS"
          /\ lastOp'.result[1] = ToEnd(Cardinality(DOMAIN tds[id].members), offset)
          /\ lastOp'.result[2] = lastOp'.result[1]]_vars

\* the ranks that listen to the datum <id>, or for <id>[subscript]
ListenerSet(t, ix, id, subscript) ==
  IF subscript = NoSub THEN Range(t[id].listeners)
  ELSE IF <<id, subscript>> \in DOMAIN ix THEN Range(ix[<<id, subscript>>])
  ELSE {}

\* the step is a subscribe of the rank that the data store accepted
SubscribeStep(id, subscript, rank) ==
  /\ data_subscribe(id, subscript, rank)
  /\ lastOp'.dc = "SUCCESS"

\* C27: subscribe always reports whether the caller was registered: its
\* result is 1 exactly when the rank was added to a listener set and 0
\* exactly when the datum was already closed, for a subscription to the
\* whole datum and for a subscription to a subscript
C27_SubscribeReports ==
  [][\A id \in ScalarIds \cup ContainerIds, sub \in {NoSub} \cup Subscripts, rank \in Ranks :
       SubscribeStep(id, sub, rank) =>
         /\ lastOp'.result[1] \in {0, 1}
         /\ lastOp'.result[1] = 1 <=>
              rank \in ListenerSet(tds', container_ix_listeners', id, sub)
         /\ lastOp'.result[1] = 0 <=> tds[id].write_refcount = 0]_vars

(***************************************************************************)
(* Properties of the locks (checked under SpecLock)                         *)
(***************************************************************************)
\* the ranks that hold the lock on the id
Holders(id) == {e[2] : e \in LockEntries(locked, id)}

\* the step is a lock request of the rank on an id that exists
LockStep(id, rank) == data_lock(id, rank) /\ lastOp'.dc = "SUCCESS"

\* C28: lock on an id returns "acquired" only if no rank holds the lock on
\* that id and "retry" otherwise; between a successful lock and the next
\* unlock of the id no other lock request on it is granted, and at most one
\* rank holds the lock at any time
C28_LockExclusive ==
  /\ [](\A id \in ScalarIds \cup ContainerIds : Cardinality(Holders(id)) <= 1)
  /\ [][\A id \in ScalarIds \cup ContainerIds :
          /\ \A rank \in LockRanks :
               LockStep(id, rank) =>
                 /\ lastOp'.result = <<Holders(id) = {}>>
                 /\ locked' = IF Holders(id) = {} THEN locked \cup {<<id, rank>>} ELSE locked
          /\ (Holders(id) # {} /\ LockEntries(locked', id) # LockEntries(locked, id)) =>
               (lastOp' = Op("unlock", id, NoSub, "SUCCESS", ADLB_NO_NOTIFS, <<>>)
                /\ LockEntries(locked', id) = {})]_vars

\* a rank asked for a lock that another rank holds and was told to retry
C28_Witness ==
  /\ lastOp.op = "lock"
  /\ lastOp.result = <<FALSE>>
  /\ Holders(lastOp.id) # {}
  /\ \E id \in (ScalarIds \cup ContainerIds) \ {lastOp.id} : Holders(id) # {}

(***************************************************************************)
(* Properties of the codec (checked under SpecPack)                         *)
(***************************************************************************)
RECURSIVE ValueEq(_, _, _)
\* the two storages of the type hold the same value: the same scalar, the
\* same key and value types and entries, the same element type and the
\* same elements as often
ValueEq(type, a, b) ==
  CASE type = "CONTAINER" ->
         /\ a[1] = b[1] /\ a[2] = b[2]
         /\ DOMAIN a[3] = DOMAIN b[3]
         /\ \A key \in DOMAIN a[3] : ValueEq(a[2], a[3][key], b[3][key])
    [] type = "MULTISET" ->
         /\ a[1] = b[1]
         /\ Len(a[2]) = Len(b[2])
         /\ \A i \in 1 .. Len(a[2]) :
              Cardinality({j \in 1 .. Len(a[2]) : ValueEq(a[1], a[2][j], a[2][i])})
                = Cardinality({j \in 1 .. Len(b[2]) : ValueEq(a[1], b[2][j], a[2][i])})
    [] OTHER -> a = b

C30_CheckpointRoundTrip ==
  xpt_loaded # NotLoaded =>
    /\ xpt_loaded.rc = "ADLB_SUCCESS"
    /\ xpt_loaded.last = "ADLB_DONE"
    /\ xpt_loaded.index = xpt_written
    /\ xpt_loaded.invalid = 0

(***************************************************************************)
(* Properties of the reference counts (checked under SpecScalar)            *)
(***************************************************************************)
\* a refcount_incr has just returned SLOTS_NEGATIVE for a datum of the store
RefcountNegativeStep ==
  /\ lastOp'.op = "refcount_incr"
  /\ lastOp'.dc = "SLOTS_NEGATIVE"
  /\ lastOp'.id \in DOMAIN tds

\* C31: a refcount_incr that fails because a count would go below zero
\* leaves the read_refcount and the write_refcount of the datum as they
\* were, also when only one of the two changes is the invalid one
C31_NegativeLeavesCounts ==
  [][RefcountNegativeStep =>
       /\ lastOp'.id \in DOMAIN tds'
       /\ tds'[lastOp'.id].read_refcount = tds[lastOp'.id].read_refcount
       /\ tds'[lastOp'.id].write_refcount = tds[lastOp'.id].write_refcount]_vars

(***************************************************************************)
(* Properties of the store (checked under SpecScalar)                       *)
(***************************************************************************)
\* a store has just returned an error code
StoreErrorStep ==
  /\ lastOp'.op = "store"
  /\ lastOp'.dc \notin {"SUCCESS", "CRASH"}

\* C32: a store that returns an error has no effect: the data, the
\* refcounts and the two subscriber tables are as they were before the
\* call, and no notification is produced
C32_FailedStoreNoEffect ==
  [][StoreErrorStep =>
       /\ tds' = tds
       /\ container_references' = container_references
       /\ container_ix_listeners' = container_ix_listeners
       /\ lastOp'.notifs = ADLB_NO_NOTIFS
       /\ notif_work' = notif_work]_vars

(***************************************************************************)
(* Properties of the reference counts of permanent data (checked under      *)
(* SpecPermanent)                                                           *)
(***************************************************************************)
\* ADLB_Refcount_incr with a read part and a valid write part is called on
\* a permanent datum while read refcounting is on
PermanentBothParts(id, r, w) ==
  /\ RefcountIncr(id, RC(r, w))
  /\ xlb_read_refcount_enabled
  /\ id \in DOMAIN tds
  /\ tds[id].permanent
  /\ refcount_ok(tds[id].write_refcount, w)

\* C33: for a permanent datum only the read part of a change is dropped: a
\* change with a read part and a write part still applies the write part,
\* and when write_refcount reaches 0 the datum is closed and its close
\* listeners are returned
C33_PermanentKeepsWritePart ==
  [][\A id \in ScalarIds \cup ContainerIds, r \in IncrCounts \ {0}, w \in IncrCounts \ {0} :
       PermanentBothParts(id, r, w) =>
         /\ id \in DOMAIN tds'
         /\ tds'[id].write_refcount = tds[id].write_refcount + w
         /\ tds'[id].write_refcount = 0 =>
              /\ lastOp'.notifs.close_notify = tds[id].listeners
              /\ tds'[id].listeners = <<>>]_vars

(***************************************************************************)
(* Properties of the scavenge request (checked under SpecScavenge)          *)
(***************************************************************************)
\* a decrement with a scavenge request on a datum that the change would
\* not leave without refcounts
ScavengeKept(id, change, scav) ==
  /\ ScavengeDecr(id, change, scav)
  /\ id \in DOMAIN tds
  /\ ~do_gc(tds[id], change)

ClosedBefore(id) ==
  /\ id \in DOMAIN tds
  /\ id \in DOMAIN tds'
  /\ tds[id].write_refcount = 0

\* a retrieve of the subscript returns after the step what it returned
\* before it (NoSub: the retrieve of the whole datum)
SameRetrieve(id, subscript) ==
  data_retrieve(tds', id, subscript) = data_retrieve(tds, id, subscript)

C36_NoListenerOnStoredSubscript ==
  \A id \in ContainerIds, sub \in Subscripts :
    id \in DOMAIN tds /\ Linked(tds[id], sub) =>
      Registered(container_ix_listeners, <<id, sub>>) = <<>>


\* the (id, subscript) pairs with a pending container reference or an
\* index listener
PendingPairs ==
  {p \in DOMAIN container_references : container_references[p] # <<>>}
    \cup {p \in DOMAIN container_ix_listeners : container_ix_listeners[p] # <<>>}

\* C37: every (id, subscript) with pending container references or index
\* listeners belongs to a container that is in the store and still open
\* (write_refcount > 0)
C37_SubscribedContainerOpen ==
  \A p \in PendingPairs : p[1] \in DOMAIN tds /\ tds[p[1]].write_refcount > 0


(***************************************************************************)
(* Properties of the ranks (checked under SpecUnique and SpecRanks)         *)
(***************************************************************************)
\* C38: every id minted by a server is owned by that server: for each
\* server and each id that its unique counter has returned, ADLB_Locate of
\* the id is the rank of that server
C38_MintedIdsOwned ==
  \A n \in ServerNums : \A k \in 1 .. Len(minted[n]) :
    ADLB_Locate(minted[n][k]) = xlb_comm_size - xlb_servers + n

\* every server has minted at least two ids, the last call was answered by
\* the last server
C38_Witness ==
  /\ \A n \in ServerNums : Len(minted[n]) >= 2
  /\ lastUnique.client # ADLB_RANK_NULL
  /\ lastUnique.dc = "ADLB_DATA_SUCCESS"
  /\ lastUnique.server_num = xlb_servers - 1


\* C39: xlb_is_server(rank) is true exactly for the ranks from
\* comm_size - servers on, the ranks for which xlb_am_server is set, and
\* xlb_map_to_server returns the rank itself for every server rank and
\* workers + (rank mod servers) for every worker rank
C39_ServerRanks ==
  /\ "xlb_is_server" \in layout.asked =>
       /\ layout.is_server <=> (layout.rank >= xlb_comm_size - xlb_servers)
       /\ layout.rank = layout.xlb_comm_rank => (layout.is_server <=> layout.xlb_am_server)
  /\ "xlb_map_to_server" \in layout.asked =>
       layout.server = IF layout.rank >= xlb_comm_size - xlb_servers
                         THEN layout.rank
                         ELSE xlb_workers + (layout.rank % xlb_servers)

(***************************************************************************)
(* Properties of the positions in the checkpoint file (checked under        *)
(* SpecFilePos)                                                              *)
(***************************************************************************)
\* C40: file_pos_add returns for every position and byte count; the
\* position it returns is the byte count further on in the same block when
\* that is before the end of the block, and in a later block of the same
\* rank when the addition reaches past the end of the block
C40_FilePosAddAdvances ==
  pos_add.done =>
    /\ pos_add.result.returns
    /\ pos_add.pos.block_pos + pos_add.add < XLB_XPT_BLOCK_SIZE =>
         /\ pos_add.result.block = pos_add.pos.block
         /\ pos_add.result.block_pos = pos_add.pos.block_pos + pos_add.add
    /\ pos_add.pos.block_pos + pos_add.add > XLB_XPT_BLOCK_SIZE =>
         /\ pos_add.result.block > pos_add.pos.block
         /\ (pos_add.result.block - pos_add.pos.block) % xlb_comm_size = 0

====
